---------------------------- MODULE Spec2Model ----------------------------
(***************************************************************************)
(* Model of the qs query-string codec library.                             *)
(*                                                                         *)
(* Part 1: the codec cache (marshaler_cache.go, unmarshaler_cache.go) on   *)
(* top of syncMap (sync_map_legacy.go), used by goroutines that resolve    *)
(* type descriptors through a cached factory.  The four caches             *)
(* (valuesMarshalerCache, marshalerCache, valuesUnmarshalerCache,          *)
(* unmarshalerCache) have the same code line for line up to the names of   *)
(* the codec interface, so one instance stands for each of them; the       *)
(* constructors behind it are those of the values-unmarshaler factory.     *)
(*                                                                         *)
(* Part 2: structUnmarshaler.UnmarshalValues and the string-sequence       *)
(* unmarshalers it drives, as operators applied to bounded inputs.         *)
(***************************************************************************)
EXTENDS Integers, Sequences, FiniteSets, TLC

VARIABLES
    active,     \* goroutines that call into the cache
    m,          \* syncMap.m: type descriptor -> stored codec or error
    readers,    \* syncMap.mu: number of holders of the read lock
    writer,     \* syncMap.mu: whether the write lock is held
    stack,      \* per goroutine: call stack of cache resolutions
    calls,      \* wrapped factory: number of invocations per type
    produced,   \* history: values the wrapped factory returned, per type
    returned,   \* history: values cache resolutions returned, per type
    last,       \* history: the last resolution each goroutine completed
    nres,       \* number of top-level resolutions started so far
    dec         \* decode run: input, position and outcome

vars == <<active, m, readers, writer, stack, calls, produced,
          returned, last, nres, dec>>

cacheVars == <<active, m, readers, writer, stack, calls, produced,
               returned, last, nres>>

-----------------------------------------------------------------------------
(* Bounds *)

NumProcs == 2
MaxResolutions == 3

\* Frames a goroutine's stack holds before the runtime ends the program
\* with a stack overflow.
MaxDepth == 4

Procs == 1..NumProcs

-----------------------------------------------------------------------------
(* Type descriptors used as cache keys *)

\* Rec: a struct type; BadMap: a map whose key type is not string;
\* PtrBadMap: a pointer to it.
Types == {"Rec", "BadMap", "PtrBadMap"}

Kind(t) ==
    CASE t = "Rec" -> "Struct"
      [] t = "BadMap" -> "Map"
      [] OTHER -> "Ptr"

Elem(t) ==
    CASE t = "PtrBadMap" -> "BadMap"
      [] OTHER -> t

\* Rec, and Self: the pointer type declared as `type Self *Self`, whose
\* element type is Self again.
SelfTypes == {"Rec", "Self"}

None == [kind |-> "none", type |-> "", id |-> 0]

\* A freshly allocated codec object (&structUnmarshaler{...},
\* &ptrValuesUnmarshaler{...}): its identity is the invocation that made it.
NewCodec(t, inv) == [kind |-> "codec", type |-> t, id |-> inv]

\* A freshly allocated error (fmt.Errorf).
NewError(t, inv) == [kind |-> "err", type |-> t, id |-> inv]

-----------------------------------------------------------------------------
(* Wrapped factory: the constructors the cache decorates *)

\* newStructUnmarshaler / newMapUnmarshaler on a type with no nested
\* resolution: a new object per invocation.
LeafConstruct(t, inv) ==
    IF Kind(t) = "Map" THEN NewError(t, inv) ELSE NewCodec(t, inv)

\* newPtrValuesUnmarshaler after its element type was resolved to `eu`:
\* the element's error is passed on as is, otherwise a new pointer codec.
PtrConstruct(t, inv, eu) ==
    IF eu.kind = "err" THEN eu ELSE NewCodec(t, inv)

-----------------------------------------------------------------------------
(* syncMap *)

\* o.mu.RLock() succeeds when no writer holds the mutex.
CanRLock == ~writer

\* Variant: Store takes the mutex the way Load does (RLock for Lock).
CanLockShared == ~writer

\* o.mu.Lock() succeeds when nobody holds the mutex.
CanLock == ~writer /\ readers = 0

\* Variant: Load returns without giving the read lock back.
RUnlockSkipped(r) == r

\* o.mu.RUnlock()
RUnlock(r) == r - 1

\* Variant: the lookup never reports a hit.
LoadOkNever(mm, key) == FALSE

\* value, ok = o.m[key]
LoadOk(mm, key) == key \in DOMAIN mm

LoadValue(mm, key) == IF key \in DOMAIN mm THEN mm[key] ELSE None

\* Variant: only the error branch stores.
MapStoreErrorsOnly(mm, key, value) ==
    IF value.kind = "err"
    THEN [k \in DOMAIN mm \cup {key} |-> IF k = key THEN value ELSE mm[k]]
    ELSE mm

\* Variant: only the success branch stores.
MapStoreCodecsOnly(mm, key, value) ==
    IF value.kind = "codec"
    THEN [k \in DOMAIN mm \cup {key} |-> IF k = key THEN value ELSE mm[k]]
    ELSE mm

\* Variant: the store replaces the whole map.
MapStoreReset(mm, key, value) == [k \in {key} |-> value]

\* o.m[key] = value
MapStore(mm, key, value) ==
    [k \in DOMAIN mm \cup {key} |-> IF k = key THEN value ELSE mm[k]]

-----------------------------------------------------------------------------
(* Call stacks *)

NewFrame(t, q) ==
    [t |-> t, pc |-> "rlock", inv |-> 0, res |-> None, q |-> q]

Top(p) == stack[p][Len(stack[p])]

HasFrame(p) == Len(stack[p]) > 0

SetTop(s, f) == [s EXCEPT ![Len(s)] = f]

Pop(s) == SubSeq(s, 1, Len(s) - 1)

\* Some frame of goroutine p resolves type t.
InFlight(p, t) == \E i \in 1..Len(stack[p]) : stack[p][i].t = t

\* Some frame resolving t has missed and not yet stored.
PendingMiss(t) ==
    \E p \in Procs : \E i \in 1..Len(stack[p]) :
        stack[p][i].t = t /\ stack[p][i].pc \in {"wrapped", "nested", "lock", "write"}

\* At the start of a resolution of t: an earlier resolution of t has
\* completed and none is in flight.
Quiet(t) == returned[t] # {} /\ \A p \in Procs : ~InFlight(p, t)

\* The cache method returns `value` from the top frame of s: the frame is
\* popped, and a caller frame waiting in a constructor (newPtr...) goes on
\* to store what the constructor makes of it.
ReturnTo(s, value) ==
    LET rest == Pop(s) IN
    IF Len(rest) = 0 THEN rest
    ELSE LET parent == rest[Len(rest)]
         IN SetTop(rest, [parent EXCEPT !.pc = "lock",
                              !.res = PtrConstruct(parent.t, parent.inv, value)])

\* History of values the wrapped factory returned, after `value` returns
\* from the top frame of s.
ProducedAfterReturn(s, value) ==
    IF Len(s) <= 1 THEN produced
    ELSE LET parent == s[Len(s) - 1]
         IN [produced EXCEPT ![parent.t] =
                @ \cup {PtrConstruct(parent.t, parent.inv, value)}]

-----------------------------------------------------------------------------
(* Cache resolution: valuesUnmarshalerCache.ValuesUnmarshaler and its three
   siblings *)

\* A goroutine calls cache.X(t, opts).
Call(p, t) ==
    /\ p \in active
    /\ ~HasFrame(p)
    /\ nres < MaxResolutions
    /\ stack' = [stack EXCEPT ![p] = <<NewFrame(t, Quiet(t))>>]
    /\ nres' = nres + 1
    /\ UNCHANGED <<active, m, readers, writer, calls, produced,
                   returned, last, dec>>

\* Load: o.mu.RLock()
RLock(p) ==
    /\ HasFrame(p)
    /\ Top(p).pc = "rlock"
    /\ CanRLock
    /\ readers' = readers + 1
    /\ stack' = [stack EXCEPT ![p] = SetTop(@, [Top(p) EXCEPT !.pc = "read"])]
    /\ UNCHANGED <<active, m, writer, calls, produced, returned,
                   last, nres, dec>>

\* Load: value, ok = o.m[key]; o.mu.RUnlock(); then the caller's branch on ok:
\* a hit returns the stored codec or error, a miss goes on to the factory.
LoadRead(p) ==
    /\ HasFrame(p)
    /\ Top(p).pc = "read"
    /\ readers' = RUnlock(readers)
    /\ LET f == Top(p)
           item == LoadValue(m, f.t)
       IN \/ /\ LoadOk(m, f.t)
             /\ stack' = [stack EXCEPT ![p] = ReturnTo(@, item)]
             /\ returned' = [returned EXCEPT ![f.t] = @ \cup {item}]
             /\ produced' = ProducedAfterReturn(stack[p], item)
             /\ last' = [last EXCEPT ![p] =
                            [t |-> f.t, v |-> item, q |-> f.q, hit |-> TRUE]]
          \/ /\ ~LoadOk(m, f.t)
             /\ stack' = [stack EXCEPT ![p] = SetTop(@, [f EXCEPT !.pc = "wrapped"])]
             /\ UNCHANGED <<returned, produced, last>>
    /\ UNCHANGED <<active, m, writer, calls, nres, dec>>

\* m, err := o.wrapped.X(t, opts): the wrapped factory is entered.  A struct
\* or map constructor returns at once; a pointer constructor first resolves
\* its element type through opts' factory, which is this cache.  A call that
\* does not fit on the goroutine's stack is a fatal stack overflow: it never
\* returns.
Wrapped(p) ==
    /\ HasFrame(p)
    /\ Top(p).pc = "wrapped"
    /\ LET f == Top(p)
           inv == calls[f.t] + 1
       IN /\ calls' = [calls EXCEPT ![f.t] = inv]
          /\ \/ /\ Kind(f.t) # "Ptr"
                /\ stack' = [stack EXCEPT ![p] =
                      SetTop(@, [f EXCEPT !.pc = "lock", !.inv = inv,
                                         !.res = LeafConstruct(f.t, inv)])]
                /\ produced' = [produced EXCEPT ![f.t] =
                                   @ \cup {LeafConstruct(f.t, inv)}]
             \/ /\ Kind(f.t) = "Ptr"
                /\ stack' = [stack EXCEPT ![p] =
                      IF Len(@) < MaxDepth
                      THEN Append(SetTop(@, [f EXCEPT !.pc = "nested", !.inv = inv]),
                                  NewFrame(Elem(f.t), Quiet(Elem(f.t))))
                      ELSE SetTop(@, [f EXCEPT !.pc = "overflow", !.inv = inv])]
                /\ UNCHANGED produced
    /\ UNCHANGED <<active, m, readers, writer, returned, last, nres, dec>>

\* Store: o.mu.Lock(), entered on both branches of
\* `if err != nil { o.cache.Store(t, err) } else { o.cache.Store(t, m) }`.
StoreLock(p) ==
    /\ HasFrame(p)
    /\ Top(p).pc = "lock"
    /\ CanLock
    /\ writer' = TRUE
    /\ stack' = [stack EXCEPT ![p] = SetTop(@, [Top(p) EXCEPT !.pc = "write"])]
    /\ UNCHANGED <<active, m, readers, calls, produced, returned,
                   last, nres, dec>>

\* Store: o.m[key] = value; o.mu.Unlock(); then `return m, err`.
StoreWrite(p) ==
    /\ HasFrame(p)
    /\ Top(p).pc = "write"
    /\ LET f == Top(p) IN
       /\ m' = MapStore(m, f.t, f.res)
       /\ writer' = FALSE
       /\ stack' = [stack EXCEPT ![p] = ReturnTo(@, f.res)]
       /\ returned' = [returned EXCEPT ![f.t] = @ \cup {f.res}]
       /\ produced' = ProducedAfterReturn(stack[p], f.res)
       /\ last' = [last EXCEPT ![p] =
                      [t |-> f.t, v |-> f.res, q |-> f.q, hit |-> FALSE]]
    /\ UNCHANGED <<active, readers, calls, nres, dec>>

-----------------------------------------------------------------------------
(* Go values, string sequences and errors of the decode side *)

MaxFields == 2

\* A Go []string: nil, or a possibly empty sequence.
NilStrings == [isNil |-> TRUE, elems |-> <<>>]

Strs(seq) == [isNil |-> FALSE, elems |-> seq]

\* a[i:i+1]
Slice1(a, i) == Strs(<<a.elems[i]>>)

\* Go values as reflect sees them.  elems holds a pointer's pointee, a
\* slice's elements or a struct's fields; addr tells a pointee that existed
\* before the call ("old") from one allocated during it ("new").
IntV(n) == [kind |-> "Int", isNil |-> FALSE, addr |-> "", int |-> n, str |-> "", elems |-> <<>>]

StrV(x) == [kind |-> "String", isNil |-> FALSE, addr |-> "", int |-> 0, str |-> x, elems |-> <<>>]

PtrNil == [kind |-> "Ptr", isNil |-> TRUE, addr |-> "", int |-> 0, str |-> "", elems |-> <<>>]

PtrTo(addr, pointee) ==
    [kind |-> "Ptr", isNil |-> FALSE, addr |-> addr, int |-> 0, str |-> "", elems |-> <<pointee>>]

SliceNil == [kind |-> "Slice", isNil |-> TRUE, addr |-> "", int |-> 0, str |-> "", elems |-> <<>>]

SliceOf(addr, seq) ==
    [kind |-> "Slice", isNil |-> FALSE, addr |-> addr, int |-> 0, str |-> "", elems |-> seq]

StructV(fields) ==
    [kind |-> "Struct", isNil |-> FALSE, addr |-> "", int |-> 0, str |-> "", elems |-> fields]

ArrayOf(seq) ==
    [kind |-> "Array", isNil |-> FALSE, addr |-> "", int |-> 0, str |-> "", elems |-> seq]

\* A value of a type with an UnmarshalText method that keeps the text.
TextV(x) == [kind |-> "Text", isNil |-> FALSE, addr |-> "", int |-> 0, str |-> x, elems |-> <<>>]

\* Ticks of the clock in one second: a time.Time counts ticks since the
\* epoch and so carries a fraction of a second.
TicksPerSecond == 2

\* A time.Time, as the number of ticks since the epoch.
TimeV(ticks) ==
    [kind |-> "Time", isNil |-> FALSE, addr |-> "", int |-> ticks, str |-> "", elems |-> <<>>]

\* Declared length of the array type [ArrayLen]int.
ArrayLen == 2

\* n copies of x.
Repeat(x, n) == [i \in 1..n |-> x]

\* Codecs for field types: int, string, time.Time, *int, []int,
\* [ArrayLen]int and a type with an UnmarshalText method.
CodecKind(u) ==
    CASE u \in {"Int", "String", "Time"} -> "primitive"
      [] u = "PtrInt" -> "ptr"
      [] u \in {"SliceInt", "SliceSliceInt", "SlicePtrInt"} -> "slice"
      [] u = "ArrayInt" -> "array"
      [] u = "Text" -> "text"

\* ElemType / ElemUnmarshaler of the pointer and slice codecs.
ElemOf(u) ==
    CASE u = "SliceSliceInt" -> "SliceInt"
      [] u = "SlicePtrInt" -> "PtrInt"
      [] OTHER -> "Int"

\* reflect.Zero of the type a codec is for.
ZeroOf(u) ==
    CASE u = "Int" -> IntV(0)
      [] u = "String" -> StrV("")
      [] u = "PtrInt" -> PtrNil
      [] u \in {"SliceInt", "SliceSliceInt", "SlicePtrInt"} -> SliceNil
      [] u = "ArrayInt" -> ArrayOf(Repeat(IntV(0), ArrayLen))
      [] u = "Text" -> TextV("")
      [] u = "Time" -> TimeV(0)

\* Errors by dynamic type; cause keeps what went wrong underneath a
\* fmt.Errorf("... :: %v", err) rewrap.
NoErr == [kind |-> "nil", FieldName |-> "", cause |-> ""]

ReqError(name) == [kind |-> "reqError", FieldName |-> name, cause |-> "required"]

ErrorString(cause) == [kind |-> "errorString", FieldName |-> "", cause |-> cause]

WrongKindError == [kind |-> "wrongKindError", FieldName |-> "", cause |-> "kind"]

WrongTypeError == [kind |-> "wrongTypeError", FieldName |-> "", cause |-> "type"]

NumError == [kind |-> "NumError", FieldName |-> "", cause |-> "parse"]

\* A run-time panic (reflect: slice index out of range) unwinding the call.
Panic == [kind |-> "panic", FieldName |-> "", cause |-> "index"]

\* Variant: no error is taken for a required-field error.
IsRequiredFieldErrorNever(e) == [fieldName |-> "", ok |-> FALSE]

\* IsRequiredFieldError: the type assertion e.(*reqError).
IsRequiredFieldError(e) ==
    IF e.kind = "reqError"
    THEN [fieldName |-> e.FieldName, ok |-> TRUE]
    ELSE [fieldName |-> "", ok |-> FALSE]

-----------------------------------------------------------------------------
(* Unmarshalers from string sequences *)

\* Variant: the first string is taken, however many there are.
SliceToStringFirst(a) ==
    IF Len(a.elems) = 0
    THEN [s |-> "", err |-> ErrorString("collapse")]
    ELSE [s |-> a.elems[1], err |-> NoErr]

\* defaultSliceToString
defaultSliceToString(a) ==
    IF Len(a.elems) # 1
    THEN [s |-> "", err |-> ErrorString("collapse")]
    ELSE [s |-> a.elems[1], err |-> NoErr]

\* strconv.ParseInt(s, 0, bitSize) on the strings of the model.
ParseInt(s) ==
    CASE s = "0" -> [i |-> 0, err |-> NoErr]
      [] s = "3" -> [i |-> 3, err |-> NoErr]
      [] s = "7" -> [i |-> 7, err |-> NoErr]
      [] s = "8" -> [i |-> 8, err |-> NoErr]
      [] OTHER -> [i |-> 0, err |-> NumError]

\* unmarshalInt
unmarshalInt(v, s) ==
    IF v.kind # "Int" THEN [v |-> v, err |-> WrongKindError]
    ELSE LET r == ParseInt(s) IN
         IF r.err # NoErr THEN [v |-> v, err |-> r.err]
         ELSE [v |-> IntV(r.i), err |-> NoErr]

\* unmarshalString
unmarshalString(v, s) ==
    IF v.kind # "String" THEN [v |-> v, err |-> WrongKindError]
    ELSE [v |-> StrV(s), err |-> NoErr]

\* The RFC 3339 layout has no fraction of a second: the text of the
\* second'th second after the epoch.
RFC3339(second) ==
    CASE second = 0 -> "1970-01-01T00:00:00Z"
      [] second = 1 -> "1970-01-01T00:00:01Z"
      [] second = 2 -> "1970-01-01T00:00:02Z"

ParseError == [kind |-> "ParseError", FieldName |-> "", cause |-> "parse"]

\* time.Parse(time.RFC3339, s) on the strings of the model.
ParseTime(s) ==
    IF \E second \in 0..2 : RFC3339(second) = s
    THEN [ticks |-> TicksPerSecond * (CHOOSE second \in 0..2 : RFC3339(second) = s),
          err |-> NoErr]
    ELSE [ticks |-> 0, err |-> ParseError]

\* unmarshalTime
unmarshalTime(v, s) ==
    IF v.kind # "Time" THEN [v |-> v, err |-> WrongTypeError]
    ELSE LET r == ParseTime(s) IN
         IF r.err # NoErr THEN [v |-> v, err |-> r.err]
         ELSE [v |-> TimeV(r.ticks), err |-> NoErr]

\* The adapter that makes an Unmarshaler of unmarshalInt, unmarshalString
\* and the other scalar functions: an absent (nil) input leaves the value
\* alone, any other input is collapsed to one string and handed on.
PrimitiveUnmarshal(u, v, a) ==
    IF a.isNil THEN [v |-> v, err |-> NoErr]
    ELSE LET c == defaultSliceToString(a) IN
         IF c.err # NoErr THEN [v |-> v, err |-> c.err]
         ELSE IF u = "Int" THEN unmarshalInt(v, c.s)
         ELSE IF u = "Time" THEN unmarshalTime(v, c.s)
         ELSE unmarshalString(v, c.s)

RECURSIVE Unmarshal(_, _, _)

\* Variant: a present input always gets a newly allocated pointee.
ptrUnmarshalerReplaces(u, v, a) ==
    IF v.kind # "Ptr" THEN [v |-> v, err |-> WrongTypeError]
    ELSE IF a.isNil THEN [v |-> v, err |-> NoErr]
    ELSE LET v1 == PtrTo("new", ZeroOf(ElemOf(u)))
             r == Unmarshal(ElemOf(u), v1.elems[1], a)
         IN [v |-> [v1 EXCEPT !.elems = <<r.v>>], err |-> r.err]

\* ptrUnmarshaler.Unmarshal
ptrUnmarshalerUnmarshal(u, v, a) ==
    IF v.kind # "Ptr" THEN [v |-> v, err |-> WrongTypeError]
    ELSE IF a.isNil THEN [v |-> v, err |-> NoErr]
    ELSE LET v1 == IF v.isNil THEN PtrTo("new", ZeroOf(ElemOf(u))) ELSE v
             r == Unmarshal(ElemOf(u), v1.elems[1], a)
         IN [v |-> [v1 EXCEPT !.elems = <<r.v>>], err |-> r.err]

\* The loop of sliceUnmarshaler.Unmarshal from index i on.
RECURSIVE SliceLoop(_, _, _, _)
SliceLoop(u, v, a, i) ==
    IF i > Len(a.elems) THEN [v |-> v, err |-> NoErr]
    ELSE IF i > Len(v.elems) THEN [v |-> v, err |-> Panic]
    ELSE LET r == Unmarshal(ElemOf(u), v.elems[i], Slice1(a, i)) IN
         IF r.err.kind = "panic" THEN [v |-> v, err |-> r.err]
         ELSE IF r.err # NoErr
         THEN [v |-> [v EXCEPT !.elems[i] = r.v], err |-> ErrorString(r.err.cause)]
         ELSE SliceLoop(u, [v EXCEPT !.elems[i] = r.v], a, i + 1)

\* sliceUnmarshaler.Unmarshal
sliceUnmarshalerUnmarshal(u, v, a) ==
    IF v.kind # "Slice" THEN [v |-> v, err |-> WrongTypeError]
    ELSE LET v1 == IF v.isNil
                   THEN SliceOf("new", [i \in 1..Len(a.elems) |-> ZeroOf(ElemOf(u))])
                   ELSE v
         IN SliceLoop(u, v1, a, 1)

\* The loop of arrayUnmarshaler.Unmarshal from index i on.
RECURSIVE ArrayLoop(_, _, _, _)
ArrayLoop(u, v, a, i) ==
    IF i > Len(a.elems) THEN [v |-> v, err |-> NoErr]
    ELSE IF i > Len(v.elems) THEN [v |-> v, err |-> Panic]
    ELSE LET r == Unmarshal(ElemOf(u), v.elems[i], Slice1(a, i)) IN
         IF r.err.kind = "panic" THEN [v |-> v, err |-> r.err]
         ELSE IF r.err # NoErr
         THEN [v |-> [v EXCEPT !.elems[i] = r.v], err |-> ErrorString(r.err.cause)]
         ELSE ArrayLoop(u, [v EXCEPT !.elems[i] = r.v], a, i + 1)

\* Variant: the length of the input is not compared with p.Len.
arrayUnmarshalerAnyLength(u, v, a) ==
    IF v.kind # "Array" \/ Len(v.elems) # ArrayLen THEN [v |-> v, err |-> WrongTypeError]
    ELSE IF a.isNil THEN [v |-> v, err |-> NoErr]
    ELSE ArrayLoop(u, v, a, 1)

\* arrayUnmarshaler.Unmarshal
arrayUnmarshalerUnmarshal(u, v, a) ==
    IF v.kind # "Array" \/ Len(v.elems) # ArrayLen THEN [v |-> v, err |-> WrongTypeError]
    ELSE IF a.isNil THEN [v |-> v, err |-> NoErr]
    ELSE IF Len(a.elems) # ArrayLen THEN [v |-> v, err |-> ErrorString("length")]
    ELSE ArrayLoop(u, v, a, 1)

\* unmarshalWithTextUnmarshaler, for a type whose UnmarshalText keeps the
\* text it is given.
unmarshalWithTextUnmarshaler(v, a) ==
    IF v.kind # "Text" THEN [v |-> v, err |-> ErrorString("TextUnmarshaler")]
    ELSE LET c == defaultSliceToString(a) IN
         IF c.err # NoErr THEN [v |-> v, err |-> c.err]
         ELSE [v |-> TextV(c.s), err |-> NoErr]

\* Unmarshaler.Unmarshal of the codec the factory built for a field type.
Unmarshal(u, v, a) ==
    CASE CodecKind(u) = "primitive" -> PrimitiveUnmarshal(u, v, a)
      [] CodecKind(u) = "ptr" -> ptrUnmarshalerUnmarshal(u, v, a)
      [] CodecKind(u) = "slice" -> sliceUnmarshalerUnmarshal(u, v, a)
      [] CodecKind(u) = "array" -> arrayUnmarshalerUnmarshal(u, v, a)
      [] CodecKind(u) = "text" -> unmarshalWithTextUnmarshaler(v, a)

-----------------------------------------------------------------------------
(* structUnmarshaler.UnmarshalValues *)

\* Variant: a key counts as present only when it carries a value.
LookupNonEmpty(vs, name) ==
    IF name \in DOMAIN vs /\ Len(vs[name].elems) > 0
    THEN [a |-> vs[name], ok |-> TRUE]
    ELSE [a |-> NilStrings, ok |-> FALSE]

\* a, ok := vs[fum.Tag.Name]
Lookup(vs, name) ==
    IF name \in DOMAIN vs
    THEN [a |-> vs[name], ok |-> TRUE]
    ELSE [a |-> NilStrings, ok |-> FALSE]

\* Variant: the req option is not looked at.
MissingRequiredNever(fum, ok) == FALSE

\* !ok && fum.Tag.UnmarshalPresence == Req
MissingRequired(fum, ok) == ~ok /\ fum.Tag.UnmarshalPresence = "Req"

\* Variant: the nil option is not looked at.
SkipsMissingNever(fum, ok) == FALSE

\* !ok && fum.Tag.UnmarshalPresence == Nil
SkipsMissing(fum, ok) == ~ok /\ fum.Tag.UnmarshalPresence = "Nil"

\* Outcome of a decode call: the target as the call leaves it, the error
\* returned, the struct fields whose sub-codec was invoked, and the struct
\* field at which the call returned its error (0: none).
Outcome(v, err, invoked, failedAt) ==
    [v |-> v, err |-> err, invoked |-> invoked, failedAt |-> failedAt]

RECURSIVE UnmarshalValues(_, _, _)

\* The loop over p.EmbeddedFields from position k on.
RECURSIVE EmbeddedLoop(_, _, _, _, _)
EmbeddedLoop(p, v, vs, k, invoked) ==
    IF k > Len(p.EmbeddedFields) THEN Outcome(v, NoErr, invoked, 0)
    ELSE LET ef == p.EmbeddedFields[k]
             r == UnmarshalValues(ef.ValuesUnmarshaler, v.elems[ef.FieldIndex], vs)
             v1 == [v EXCEPT !.elems[ef.FieldIndex] = r.v]
             inv1 == invoked \cup {ef.FieldIndex}
         IN IF r.err.kind = "panic" THEN Outcome(v1, r.err, inv1, ef.FieldIndex)
            ELSE IF r.err # NoErr
            THEN IF IsRequiredFieldError(r.err).ok
                 THEN Outcome(v1, ReqError(ef.Name), inv1, ef.FieldIndex)
                 ELSE Outcome(v1, ErrorString(r.err.cause), inv1, ef.FieldIndex)
            ELSE EmbeddedLoop(p, v1, vs, k + 1, inv1)

\* The loop over p.Fields from position k on, followed by the loop over
\* p.EmbeddedFields.
RECURSIVE FieldLoop(_, _, _, _, _)
FieldLoop(p, v, vs, k, invoked) ==
    IF k > Len(p.Fields) THEN EmbeddedLoop(p, v, vs, 1, invoked)
    ELSE LET fum == p.Fields[k]
             l == Lookup(vs, fum.Tag.Name)
         IN IF MissingRequired(fum, l.ok)
            THEN Outcome(v, ReqError(fum.Tag.Name), invoked, fum.FieldIndex)
            ELSE IF SkipsMissing(fum, l.ok)
            THEN FieldLoop(p, v, vs, k + 1, invoked)
            ELSE LET r == Unmarshal(fum.Unmarshaler, v.elems[fum.FieldIndex], l.a)
                     v1 == [v EXCEPT !.elems[fum.FieldIndex] = r.v]
                     inv1 == invoked \cup {fum.FieldIndex}
                 IN IF r.err.kind = "panic"
                    THEN Outcome(v1, r.err, inv1, fum.FieldIndex)
                    ELSE IF r.err # NoErr
                    THEN Outcome(v1, ErrorString(r.err.cause), inv1, fum.FieldIndex)
                    ELSE FieldLoop(p, v1, vs, k + 1, inv1)

UnmarshalValues(p, v, vs) ==
    IF v.kind # "Struct" \/ Len(v.elems) # p.NumField
    THEN Outcome(v, WrongTypeError, {}, 0)
    ELSE FieldLoop(p, v, vs, 1, {})

-----------------------------------------------------------------------------
(* Decode runs on bounded inputs *)

Presences == {"Opt", "Nil", "Req"}

\* Field types with the value the target holds before the call.
Shapes ==
    { [u |-> "Int", v |-> IntV(3)],
      [u |-> "String", v |-> StrV("s")],
      [u |-> "PtrInt", v |-> PtrNil],
      [u |-> "PtrInt", v |-> PtrTo("old", IntV(3))],
      [u |-> "SliceInt", v |-> SliceNil] }

\* What the input multimap holds under a field's wire key: nothing, a nil
\* sequence, an empty one, an empty string, a number.
Inputs ==
    { [ok |-> FALSE, a |-> NilStrings],
      [ok |-> TRUE, a |-> NilStrings],
      [ok |-> TRUE, a |-> Strs(<<>>)],
      [ok |-> TRUE, a |-> Strs(<<"">>)],
      [ok |-> TRUE, a |-> Strs(<<"7">>)] }

FieldChoices == Shapes \X Presences \X Inputs

\* snake-case wire key of the i-th field.
KeyOf(i) == <<"a", "b", "c", "d">>[i]

\* The entry newStructUnmarshaler appends to su.Fields for the i-th field
\* of the struct, whose type and unmarshal option are those of f.
FieldUnmarshalerOf(i, f) ==
    [ FieldIndex |-> i,
      Unmarshaler |-> f[1].u,
      Tag |-> [Name |-> KeyOf(i), UnmarshalPresence |-> f[2]] ]

\* The codec of a struct without fields, an empty multimap and the
\* struct's value.
EmptyRun ==
    [ phase |-> "build",
      p |-> [Type |-> "Rec", NumField |-> 0, Fields |-> <<>>, EmbeddedFields |-> <<>>],
      vs |-> <<>>,
      v0 |-> StructV(<<>>),
      out |-> Outcome(StructV(<<>>), NoErr, {}, 0) ]

\* One more exported field of the record type, with the value the target
\* holds in it and what the multimap holds under its wire key.
AddField(f) ==
    /\ dec.phase = "build"
    /\ dec.p.NumField < MaxFields
    /\ LET i == dec.p.NumField + 1 IN
       dec' = [dec EXCEPT
                 !.p.NumField = i,
                 !.p.Fields = Append(@, FieldUnmarshalerOf(i, f)),
                 !.v0.elems = Append(@, f[1].v),
                 !.vs = IF f[3].ok
                        THEN [k \in DOMAIN @ \cup {KeyOf(i)} |->
                                IF k = KeyOf(i) THEN f[3].a ELSE @[k]]
                        ELSE @]
    /\ UNCHANGED cacheVars

\* vum.UnmarshalValues(v, values, p.opts) on the chosen input.
Decode ==
    /\ dec.phase = "build"
    /\ dec' = [dec EXCEPT !.phase = "done",
                          !.out = UnmarshalValues(dec.p, dec.v0, dec.vs)]
    /\ UNCHANGED cacheVars

-----------------------------------------------------------------------------
(* Unmarshaler.Unmarshal runs on bounded inputs *)

MaxStrings == 2

\* The strings that travel on the wire in these runs.
WireStrings == {"", "7", "8"}

SeqsUpTo(S, n) == UNION {[1..k -> S] : k \in 0..n}

\* The []string handed to Unmarshal: nil, or up to MaxStrings strings.
StringInputs == {NilStrings} \cup {Strs(q) : q \in SeqsUpTo(WireStrings, MaxStrings)}

\* Codecs with the value the target holds before the call; a slice target
\* is nil or already holds up to MaxStrings + 1 elements.
StringTargets ==
    { [u |-> "Int", v |-> IntV(3)],
      [u |-> "String", v |-> StrV("s")],
      [u |-> "Text", v |-> TextV("s")],
      [u |-> "PtrInt", v |-> PtrNil],
      [u |-> "PtrInt", v |-> PtrTo("old", IntV(3))],
      [u |-> "SliceInt", v |-> SliceNil],
      [u |-> "ArrayInt", v |-> ArrayOf(Repeat(IntV(3), ArrayLen))] }
    \cup { [u |-> "SliceInt", v |-> SliceOf("old", Repeat(IntV(3), n))] : n \in 0..(MaxStrings + 1) }

StringsRun(t, a) ==
    [ phase |-> "call",
      u |-> t.u,
      v0 |-> t.v,
      a |-> a,
      out |-> [v |-> t.v, err |-> NoErr] ]

\* um.Unmarshal(v, a, opts) on the chosen codec, target and strings.
UnmarshalStrings ==
    /\ dec.phase = "call"
    /\ dec' = [dec EXCEPT !.phase = "returned",
                          !.out = Unmarshal(dec.u, dec.v0, dec.a)]
    /\ UNCHANGED cacheVars

-----------------------------------------------------------------------------
(* Marshalers to string sequences *)

\* strconv.FormatInt(i, 10) on the numbers of the model.
FormatInt(i) ==
    CASE i = 0 -> "0"
      [] i = 3 -> "3"
      [] i = 7 -> "7"
      [] i = 8 -> "8"

\* marshalInt
marshalInt(v) ==
    IF v.kind # "Int" THEN [s |-> "", err |-> WrongKindError]
    ELSE [s |-> FormatInt(v.int), err |-> NoErr]

\* marshalString
marshalString(v) ==
    IF v.kind # "String" THEN [s |-> "", err |-> WrongKindError]
    ELSE [s |-> v.str, err |-> NoErr]

\* marshalTime: Format(time.RFC3339) writes whole seconds.
marshalTime(v) ==
    IF v.kind # "Time" THEN [s |-> "", err |-> WrongTypeError]
    ELSE [s |-> RFC3339(v.int \div TicksPerSecond), err |-> NoErr]

\* The adapter that makes a Marshaler of marshalInt, marshalString and the
\* other scalar functions: the one string becomes a sequence of one.
PrimitiveMarshal(u, v) ==
    LET r == CASE u = "Int" -> marshalInt(v)
               [] u = "Time" -> marshalTime(v)
               [] OTHER -> marshalString(v)
    IN IF r.err # NoErr THEN [a |-> NilStrings, err |-> r.err]
       ELSE [a |-> Strs(<<r.s>>), err |-> NoErr]

RECURSIVE Marshal(_, _)

\* ptrMarshaler.Marshal
ptrMarshalerMarshal(u, v) ==
    IF v.kind # "Ptr" THEN [a |-> NilStrings, err |-> WrongTypeError]
    ELSE IF v.isNil THEN [a |-> NilStrings, err |-> NoErr]
    ELSE Marshal(ElemOf(u), v.elems[1])

\* The loop of arrayAndSliceMarshaler.Marshal from index i on; a holds the
\* strings of the elements before i.
RECURSIVE MarshalLoop(_, _, _, _)
MarshalLoop(u, v, a, i) ==
    IF i > Len(v.elems) THEN [a |-> Strs(a), err |-> NoErr]
    ELSE LET r == Marshal(ElemOf(u), v.elems[i]) IN
         IF r.err # NoErr THEN [a |-> NilStrings, err |-> ErrorString(r.err.cause)]
         ELSE IF Len(r.a.elems) # 1 THEN [a |-> NilStrings, err |-> ErrorString("length")]
         ELSE MarshalLoop(u, v, Append(a, r.a.elems[1]), i + 1)

\* arrayAndSliceMarshaler.Marshal
arrayAndSliceMarshalerMarshal(u, v) ==
    IF v.kind \notin {"Array", "Slice"} THEN [a |-> NilStrings, err |-> WrongTypeError]
    ELSE IF Len(v.elems) = 0 THEN [a |-> NilStrings, err |-> NoErr]
    ELSE MarshalLoop(u, v, <<>>, 1)

\* Marshaler.Marshal of the codec the factory built for a field type.
Marshal(u, v) ==
    CASE CodecKind(u) = "primitive" -> PrimitiveMarshal(u, v)
      [] CodecKind(u) = "ptr" -> ptrMarshalerMarshal(u, v)
      [] CodecKind(u) \in {"slice", "array"} -> arrayAndSliceMarshalerMarshal(u, v)

-----------------------------------------------------------------------------
(* structMarshaler.MarshalValues *)

\* Variant: no value counts as empty.
isEmptyNever(v) == FALSE

\* isEmpty
isEmpty(v) ==
    CASE v.kind = "Ptr" -> v.isNil
      [] v.kind = "Int" -> v.int = 0
      [] v.kind = "String" -> v.str = ""
      [] v.kind \in {"Array", "Slice"} -> Len(v.elems) = 0
      [] v.kind = "Map" -> DOMAIN v.elems = {}
      [] OTHER -> FALSE

\* Variant: the keys of an embedded field are not copied into the result.
MergeNothing(vs, evs) == vs

\* Variant: a key the result already holds is not replaced.
MergeKeepsExisting(vs, evs) ==
    [k \in DOMAIN vs \cup DOMAIN evs |-> IF k \in DOMAIN vs THEN vs[k] ELSE evs[k]]

\* for k, a := range evs { vs[k] = a }
MergeValues(vs, evs) ==
    [k \in DOMAIN vs \cup DOMAIN evs |-> IF k \in DOMAIN evs THEN evs[k] ELSE vs[k]]

RECURSIVE MarshalValues(_, _)

\* The loop over p.EmbeddedFields from position k on.
RECURSIVE EmbeddedMarshalLoop(_, _, _, _)
EmbeddedMarshalLoop(p, v, vs, k) ==
    IF k > Len(p.EmbeddedFields) THEN [vs |-> vs, err |-> NoErr]
    ELSE LET ef == p.EmbeddedFields[k]
             r == MarshalValues(ef.ValuesMarshaler, v.elems[ef.FieldIndex])
         IN IF r.err # NoErr THEN [vs |-> <<>>, err |-> ErrorString(r.err.cause)]
            ELSE EmbeddedMarshalLoop(p, v, MergeValues(vs, r.vs), k + 1)

\* The loop over p.Fields from position k on, followed by the loop over
\* p.EmbeddedFields.
RECURSIVE FieldMarshalLoop(_, _, _, _)
FieldMarshalLoop(p, v, vs, k) ==
    IF k > Len(p.Fields) THEN EmbeddedMarshalLoop(p, v, vs, 1)
    ELSE LET fm == p.Fields[k]
             fv == v.elems[fm.FieldIndex]
         IN IF fm.Tag.MarshalPresence = "OmitEmpty" /\ isEmpty(fv)
            THEN FieldMarshalLoop(p, v, vs, k + 1)
            ELSE LET r == Marshal(fm.Marshaler, fv) IN
                 IF r.err # NoErr THEN [vs |-> <<>>, err |-> ErrorString(r.err.cause)]
                 ELSE IF Len(r.a.elems) # 0
                 THEN FieldMarshalLoop(p, v,
                          [n \in DOMAIN vs \cup {fm.Tag.Name} |->
                              IF n = fm.Tag.Name THEN r.a ELSE vs[n]],
                          k + 1)
                 ELSE FieldMarshalLoop(p, v, vs, k + 1)

MarshalValues(p, v) ==
    IF v.kind # "Struct" \/ Len(v.elems) # p.NumField
    THEN [vs |-> <<>>, err |-> WrongTypeError]
    ELSE FieldMarshalLoop(p, v, <<>>, 1)

-----------------------------------------------------------------------------
(* Encode runs on bounded inputs, each followed by a decode of its output *)

MarshalPresences == {"KeepEmpty", "OmitEmpty"}

\* Field types with the value the record holds in the field.
Values ==
    { [u |-> "Int", v |-> IntV(0)],
      [u |-> "Int", v |-> IntV(7)],
      [u |-> "String", v |-> StrV("")],
      [u |-> "String", v |-> StrV("y")],
      [u |-> "Time", v |-> TimeV(TicksPerSecond)],
      [u |-> "Time", v |-> TimeV(TicksPerSecond + 1)],
      [u |-> "PtrInt", v |-> PtrNil],
      [u |-> "PtrInt", v |-> PtrTo("old", IntV(0))],
      [u |-> "SliceInt", v |-> SliceNil],
      [u |-> "SliceInt", v |-> SliceOf("old", <<>>)],
      [u |-> "SliceInt", v |-> SliceOf("old", <<IntV(7), IntV(0)>>)],
      [u |-> "ArrayInt", v |-> ArrayOf(Repeat(IntV(0), ArrayLen))] }

MarshalChoices == Values \X MarshalPresences

\* The codecs of type Base struct { ID string } and the values of ID.
BaseMarshaler ==
    [ Type |-> "Base", NumField |-> 1,
      Fields |-> << [ FieldIndex |-> 1, Marshaler |-> "String",
                      Tag |-> [Name |-> "id", MarshalPresence |-> "KeepEmpty"] ] >>,
      EmbeddedFields |-> <<>> ]

BaseUnmarshaler ==
    [ Type |-> "Base", NumField |-> 1,
      Fields |-> << [ FieldIndex |-> 1, Unmarshaler |-> "String",
                      Tag |-> [Name |-> "id", UnmarshalPresence |-> "Opt"] ] >>,
      EmbeddedFields |-> <<>> ]

BaseIDs == {"", "x"}

\* The entry newStructMarshaler appends to sm.Fields for the i-th field of
\* the struct, whose type and marshal option are those of f.
FieldMarshalerOf(i, f) ==
    [ FieldIndex |-> i,
      Marshaler |-> f[1].u,
      Tag |-> [Name |-> KeyOf(i), MarshalPresence |-> f[2]] ]

\* The codecs of a struct without fields, its value and its zero value.
EmptyEncodeRun ==
    [ phase |-> "fields",
      pm |-> [Type |-> "Rec", NumField |-> 0, Fields |-> <<>>, EmbeddedFields |-> <<>>],
      pu |-> [Type |-> "Rec", NumField |-> 0, Fields |-> <<>>, EmbeddedFields |-> <<>>],
      v |-> StructV(<<>>),
      zero |-> StructV(<<>>),
      enc |-> [vs |-> <<>>, err |-> NoErr],
      out |-> Outcome(StructV(<<>>), NoErr, {}, 0) ]

\* The record type embeds Base as its first field, holding id in ID.
AddEmbedded(id) ==
    /\ dec.phase = "fields"
    /\ dec.pm.NumField = 0
    /\ dec' = [dec EXCEPT
                 !.pm.NumField = 1,
                 !.pm.EmbeddedFields =
                     <<[FieldIndex |-> 1, ValuesMarshaler |-> BaseMarshaler]>>,
                 !.pu.NumField = 1,
                 !.pu.EmbeddedFields =
                     <<[FieldIndex |-> 1, Name |-> "Base",
                        ValuesUnmarshaler |-> BaseUnmarshaler]>>,
                 !.v.elems = <<StructV(<<StrV(id)>>)>>,
                 !.zero.elems = <<StructV(<<StrV("")>>)>>]
    /\ UNCHANGED cacheVars

\* One more exported field of the record type, with the value the record
\* holds in it.
AddMarshalField(f) ==
    /\ dec.phase = "fields"
    /\ Len(dec.pm.Fields) < MaxFields
    /\ LET i == dec.pm.NumField + 1 IN
       dec' = [dec EXCEPT
                 !.pm.NumField = i,
                 !.pm.Fields = Append(@, FieldMarshalerOf(i, f)),
                 !.pu.NumField = i,
                 !.pu.Fields = Append(@, FieldUnmarshalerOf(i, <<f[1], "Opt">>)),
                 !.v.elems = Append(@, f[1].v),
                 !.zero.elems = Append(@, ZeroOf(f[1].u))]
    /\ UNCHANGED cacheVars

\* vm.MarshalValues(v, p.opts) on the chosen record.
Encode ==
    /\ dec.phase = "fields"
    /\ dec' = [dec EXCEPT !.phase = "encoded",
                          !.enc = MarshalValues(dec.pm, dec.v)]
    /\ UNCHANGED cacheVars

\* vum.UnmarshalValues(v, values, p.opts) of the encoded multimap into a
\* zero value of the record type.
DecodeBack ==
    /\ dec.phase = "encoded"
    /\ dec.enc.err = NoErr
    /\ dec' = [dec EXCEPT !.phase = "decoded",
                          !.out = UnmarshalValues(dec.pu, dec.zero, dec.enc.vs)]
    /\ UNCHANGED cacheVars

-----------------------------------------------------------------------------
(* Codec resolution under a custom UnmarshalerFactory *)

\* Levels of pointers and slices around the intercepted type.
MaxNesting == 2

\* The type the custom factory intercepts; the built-in factory has a codec
\* for it too ([]byte in the example).
XType == <<"X">>

\* Types as the chain of their constructors, outermost first:
\* <<"Ptr", "Slice", "X">> is *[]X.
RECURSIVE StringTypes(_)
StringTypes(n) ==
    IF n = 0 THEN {XType}
    ELSE StringTypes(n - 1)
           \cup {<<k>> \o t : k \in {"Ptr", "Slice"}, t \in StringTypes(n - 1)}

\* map[string]T, and a struct with one field of type T.
ValuesTypes == {<<k>> \o t : k \in {"Map", "Struct"}, t \in StringTypes(MaxNesting)}

\* A codec object: the type it is for, who made it, and the codec of its
\* element type if it has one.
CodecFor(t, by, sub) == [Type |-> t, by |-> by, sub |-> sub]

\* The caches of one configuration (of opts.UnmarshalerFactory, of the
\* default factory the custom one wraps, of opts.ValuesUnmarshalerFactory)
\* and the types the built-in scalar factory was asked to build a codec for.
NoCaches == [opts |-> <<>>, orig |-> <<>>, values |-> <<>>, builtin |-> {}]

RECURSIVE unmarshalerCacheUnmarshaler(_, _)
RECURSIVE origUnmarshaler(_, _)

\* Variant: a constructor asks the default factory for its sub-codec.
FromDefaultFactory(t, c) == origUnmarshaler(t, c)

\* opts.UnmarshalerFactory.Unmarshaler(et, opts), as every constructor
\* obtains the codec of its element, value or field type.
FromOptions(t, c) == unmarshalerCacheUnmarshaler(t, c)

\* newPtrUnmarshaler, newSliceUnmarshaler
newElemUnmarshaler(t, c) ==
    LET r == FromOptions(Tail(t), c)
    IN [u |-> CodecFor(t, "builtin", <<r.u>>), c |-> r.c]

\* The built-in UnmarshalerFactory: its own codec for X, the pointer and
\* slice constructors for the composite types.
defaultUnmarshalerFactory(t, c) ==
    LET c1 == [c EXCEPT !.builtin = @ \cup {t}] IN
    IF t = XType THEN [u |-> CodecFor(t, "builtin", <<>>), c |-> c1]
    ELSE newElemUnmarshaler(t, c1)

\* The unmarshalerCache that NewDefaultUnmarshalOptions puts around the
\* built-in factory: the custom factory's orig.
origUnmarshaler(t, c) ==
    IF t \in DOMAIN c.orig THEN [u |-> c.orig[t], c |-> c]
    ELSE LET r == defaultUnmarshalerFactory(t, c)
         IN [u |-> r.u, c |-> [r.c EXCEPT !.orig = MapStore(@, t, r.u)]]

\* unmarshalerFactory.Unmarshaler of the example: X is intercepted, every
\* other type goes to orig.
unmarshalerFactoryUnmarshaler(t, c) ==
    IF t = XType THEN [u |-> CodecFor(t, "custom", <<>>), c |-> c]
    ELSE origUnmarshaler(t, c)

\* The unmarshalerCache that prepareUnmarshalOptions puts around the custom
\* factory: opts.UnmarshalerFactory.
unmarshalerCacheUnmarshaler(t, c) ==
    IF t \in DOMAIN c.opts THEN [u |-> c.opts[t], c |-> c]
    ELSE LET r == unmarshalerFactoryUnmarshaler(t, c)
         IN [u |-> r.u, c |-> [r.c EXCEPT !.opts = MapStore(@, t, r.u)]]

\* newMapUnmarshaler, and newStructUnmarshaler with newFieldUnmarshaler for
\* the one field.
newValuesUnmarshaler(t, c) ==
    LET r == FromOptions(Tail(t), c)
    IN [u |-> CodecFor(t, "builtin", <<r.u>>), c |-> r.c]

\* opts.ValuesUnmarshalerFactory.ValuesUnmarshaler(t, opts): the cache
\* around the built-in ValuesUnmarshalerFactory.
valuesUnmarshalerCacheValuesUnmarshaler(t, c) ==
    IF t \in DOMAIN c.values THEN [u |-> c.values[t], c |-> c]
    ELSE LET r == newValuesUnmarshaler(t, c)
         IN [u |-> r.u, c |-> [r.c EXCEPT !.values = MapStore(@, t, r.u)]]

\* No resolution yet under the configuration.
NoResolution == [phase |-> "resolve", n |-> 0, c |-> NoCaches, t |-> <<>>,
                 u |-> CodecFor(<<>>, "", <<>>)]

\* QSUnmarshaler.UnmarshalValues or CheckUnmarshalType resolves the codec of
\* a map or struct type.
Resolve(t) ==
    /\ dec.phase = "resolve"
    /\ dec.n < MaxResolutions
    /\ LET r == valuesUnmarshalerCacheValuesUnmarshaler(t, dec.c) IN
       dec' = [dec EXCEPT !.n = @ + 1, !.c = r.c, !.t = t, !.u = r.u]
    /\ UNCHANGED cacheVars

-----------------------------------------------------------------------------
(* mapMarshaler.MarshalValues and the default marshal presence *)

\* A map[string]T value: elems maps the keys to the values.
MapOf(addr, entries) ==
    [kind |-> "Map", isNil |-> FALSE, addr |-> addr, int |-> 0, str |-> "", elems |-> entries]

MapNil == [kind |-> "Map", isNil |-> TRUE, addr |-> "", int |-> 0, str |-> "", elems |-> <<>>]

\* The options of a call, as far as the marshalers read them.
MarshalOptions(d) == [DefaultMarshalPresence |-> d]

\* opts.DefaultMarshalPresence == OmitEmpty && isEmpty(val)
MapSkips(val, opts) == opts.DefaultMarshalPresence = "OmitEmpty" /\ isEmpty(val)

\* mapMarshaler.MarshalValues; the keys are distinct, so the order in which
\* v.MapKeys() yields them does not show in the result.
mapMarshalerMarshalValues(p, v, opts) ==
    IF v.kind # "Map" THEN [vs |-> <<>>, err |-> WrongTypeError]
    ELSE IF DOMAIN v.elems = {} THEN [vs |-> <<>>, err |-> NoErr]
    ELSE LET kept == {k \in DOMAIN v.elems : ~MapSkips(v.elems[k], opts)}
             r == [k \in kept |-> Marshal(p.ElemMarshaler, v.elems[k])]
         IN IF \E k \in kept : r[k].err # NoErr
            THEN [vs |-> <<>>, err |-> ErrorString("key")]
            ELSE [vs |-> [k \in kept |-> r[k].a], err |-> NoErr]

\* ValuesMarshaler.MarshalValues(v, opts) of a built codec: the struct
\* marshaler hands opts on to its sub-codecs and reads only its tags.
ValuesMarshalerMarshalValues(p, v, opts) ==
    IF p.Type = "Map" THEN mapMarshalerMarshalValues(p, v, opts)
    ELSE MarshalValues(p, v)

\* What a field tag says about marshal presence.
TagOptions == {"Unspecified", "KeepEmpty", "OmitEmpty"}

\* getStructFieldInfo: an option the tag leaves unset falls back to the
\* default handed in.
ResolvePresence(option, default) ==
    IF option = "Unspecified" THEN default ELSE option

\* Values a field or a map entry holds in the presence runs.
PresenceValues ==
    { [u |-> "Int", v |-> IntV(0)],
      [u |-> "Int", v |-> IntV(7)],
      [u |-> "String", v |-> StrV("")],
      [u |-> "PtrInt", v |-> PtrNil],
      [u |-> "PtrInt", v |-> PtrTo("old", IntV(7))] }

MapKeys == {"a", "b"}

\* The codecs built in the presence runs: a struct marshaler, and the
\* marshalers of map[string]int and map[string]*int.
PresenceCodecs == {"Rec", "Int", "PtrInt"}

\* A codec about to be built under options whose default marshal presence
\* is d.
PresenceRun(codec, d) ==
    [ phase |-> "build",
      default |-> d,
      pm |-> IF codec = "Rec"
             THEN [Type |-> "Rec", NumField |-> 0, Fields |-> <<>>, EmbeddedFields |-> <<>>]
             ELSE [Type |-> "Map", ElemMarshaler |-> codec],
      v |-> IF codec = "Rec" THEN StructV(<<>>) ELSE MapOf("old", <<>>),
      res |-> <<>> ]

\* newStructMarshaler: one more field, its tag resolved against the default
\* of the options the codec is built with.
AddTaggedField(f, option) ==
    /\ dec.phase = "build"
    /\ dec.pm.Type = "Rec"
    /\ dec.pm.NumField < MaxFields
    /\ LET i == dec.pm.NumField + 1 IN
       dec' = [dec EXCEPT
                 !.pm.NumField = i,
                 !.pm.Fields = Append(@, FieldMarshalerOf(i,
                                  <<f, ResolvePresence(option, dec.default)>>)),
                 !.v.elems = Append(@, f.v)]
    /\ UNCHANGED cacheVars

\* One more entry of the map value.
AddMapEntry(k, f) ==
    /\ dec.phase = "build"
    /\ dec.pm.Type = "Map"
    /\ f.u = dec.pm.ElemMarshaler
    /\ k \notin DOMAIN dec.v.elems
    /\ dec' = [dec EXCEPT !.v.elems = MapStore(@, k, f.v)]
    /\ UNCHANGED cacheVars

\* vm.MarshalValues(v, opts) on the built codec, with options whose default
\* marshal presence is d; the result is kept under d.
EncodeWith(d) ==
    /\ d \notin DOMAIN dec.res
    /\ dec' = [dec EXCEPT
                 !.phase = "built",
                 !.res = MapStore(@, d,
                            ValuesMarshalerMarshalValues(dec.pm, dec.v, MarshalOptions(d)))]
    /\ UNCHANGED cacheVars

-----------------------------------------------------------------------------
(* Construction and use of the array and slice marshaler *)

\* opts.MarshalerFactory.Marshaler(t, opts) with the built-in factory: the
\* constructor for the kind of t.  A codec is named by the type it is for.
RECURSIVE MarshalerFactoryMarshaler(_)

\* newPtrMarshaler
newPtrMarshaler(t) ==
    IF CodecKind(t) # "ptr" THEN [m |-> "", err |-> WrongKindError]
    ELSE LET em == MarshalerFactoryMarshaler(ElemOf(t)) IN
         IF em.err # NoErr THEN [m |-> "", err |-> em.err]
         ELSE [m |-> t, err |-> NoErr]

\* newArrayAndSliceMarshaler
newArrayAndSliceMarshaler(t) ==
    IF CodecKind(t) \notin {"array", "slice"} THEN [m |-> "", err |-> WrongKindError]
    ELSE LET em == MarshalerFactoryMarshaler(ElemOf(t)) IN
         IF em.err # NoErr THEN [m |-> "", err |-> em.err]
         ELSE [m |-> t, err |-> NoErr]

MarshalerFactoryMarshaler(t) ==
    CASE CodecKind(t) = "ptr" -> newPtrMarshaler(t)
      [] CodecKind(t) \in {"array", "slice"} -> newArrayAndSliceMarshaler(t)
      [] OTHER -> [m |-> t, err |-> NoErr]

\* Values of the sequence types []int, [ArrayLen]int, []*int and [][]int.
SequenceValues ==
    {[u |-> "SliceInt", v |-> SliceNil]}
    \cup {[u |-> "SliceInt", v |-> SliceOf("old", q)] :
             q \in SeqsUpTo({IntV(0), IntV(3), IntV(7), IntV(8)}, MaxStrings)}
    \cup {[u |-> "ArrayInt", v |-> ArrayOf(q)] : q \in [1..ArrayLen -> {IntV(0), IntV(7)}]}
    \cup {[u |-> "SlicePtrInt", v |-> SliceOf("old", q)] :
             q \in SeqsUpTo({PtrNil, PtrTo("old", IntV(7))}, MaxStrings)}
    \cup {[u |-> "SliceSliceInt", v |-> SliceOf("old", q)] :
             q \in SeqsUpTo({SliceNil, SliceOf("old", <<IntV(7)>>),
                             SliceOf("old", <<IntV(7), IntV(0)>>)}, MaxStrings)}

SequenceRun(t) ==
    [ phase |-> "type",
      u |-> t.u,
      v |-> t.v,
      built |-> [m |-> "", err |-> NoErr],
      out |-> [a |-> NilStrings, err |-> NoErr] ]

\* The factory is asked for the marshaler of the sequence type.
ConstructSequence ==
    /\ dec.phase = "type"
    /\ dec' = [dec EXCEPT !.phase = "constructed",
                          !.built = newArrayAndSliceMarshaler(dec.u)]
    /\ UNCHANGED cacheVars

\* m.Marshal(v, opts) on the constructed marshaler.
MarshalSequence ==
    /\ dec.phase = "constructed"
    /\ dec.built.err = NoErr
    /\ dec' = [dec EXCEPT !.phase = "marshalled",
                          !.out = arrayAndSliceMarshalerMarshal(dec.built.m, dec.v)]
    /\ UNCHANGED cacheVars

-----------------------------------------------------------------------------
(* Decode runs on records that embed records *)

\* Field choices of the innermost record: an int field, optional or
\* required, whose key is missing, carries a number or carries "".
EmbeddedChoices ==
    {<<[u |-> "Int", v |-> IntV(3)], pr, in>> :
        pr \in {"Opt", "Req"},
        in \in { [ok |-> FALSE, a |-> NilStrings],
                 [ok |-> TRUE, a |-> Strs(<<"7">>)],
                 [ok |-> TRUE, a |-> Strs(<<"">>)] }}

\* How many records deep the codec p embeds.
RECURSIVE Depth(_)
Depth(p) ==
    IF p.EmbeddedFields = <<>> THEN 0
    ELSE 1 + Depth(p.EmbeddedFields[1].ValuesUnmarshaler)

\* Declared name of the embedded field at depth d: the name of its type.
EmbeddingName(d) == <<"Base", "Mid", "Top", "Root">>[d]

\* One more field of the innermost record.
AddInnerField(f) ==
    /\ dec.p.EmbeddedFields = <<>>
    /\ AddField(f)

\* The record built so far becomes the embedded field of a new record
\* type, which has no field of its own.
Embed ==
    /\ dec.phase = "build"
    /\ Depth(dec.p) < MaxNesting
    /\ dec' = [dec EXCEPT
                 !.p = [Type |-> EmbeddingName(Depth(dec.p) + 1), NumField |-> 1,
                        Fields |-> <<>>,
                        EmbeddedFields |->
                            <<[FieldIndex |-> 1, Name |-> EmbeddingName(Depth(dec.p) + 1),
                               ValuesUnmarshaler |-> dec.p]>>],
                 !.v0 = StructV(<<dec.v0>>)]
    /\ UNCHANGED cacheVars

-----------------------------------------------------------------------------
(* mapUnmarshaler.UnmarshalValues *)

\* Variant: a key the target already has is decoded into the value the
\* target holds under it.
ExistingItem(p, v, k) ==
    IF k \in DOMAIN v.elems THEN v.elems[k] ELSE ZeroOf(p.ElemType)

\* item := reflect.New(p.ElemType).Elem()
NewItem(p, v, k) == ZeroOf(p.ElemType)

\* The loop `for k, a := range vs`, which visits the keys in the order
\* `order`, from position i on.
RECURSIVE MapLoop(_, _, _, _, _)
MapLoop(p, v, vs, order, i) ==
    IF i > Len(order) THEN [v |-> v, err |-> NoErr]
    ELSE LET k == order[i]
             r == Unmarshal(p.ElemUnmarshaler, NewItem(p, v, k), vs[k])
         IN IF r.err # NoErr THEN [v |-> v, err |-> ErrorString(r.err.cause)]
            ELSE MapLoop(p, [v EXCEPT !.elems = MapStore(@, k, r.v)], vs, order, i + 1)

\* mapUnmarshaler.UnmarshalValues
mapUnmarshalerUnmarshalValues(p, v, vs, order) ==
    IF v.kind # "Map" THEN [v |-> v, err |-> WrongTypeError]
    ELSE MapLoop(p, IF v.isNil THEN MapOf("new", <<>>) ELSE v, vs, order, 1)

\* The orders in which a range over a map with the keys K can yield them.
Orders(K) ==
    {o \in [1..Cardinality(K) -> K] : \A i, j \in DOMAIN o : o[i] = o[j] => i = j}

\* Functions from a subset of K to S.
PartialMaps(K, S) == UNION {[D -> S] : D \in SUBSET K}

\* Element types of the map with the value an entry of the target holds.
MapElems ==
    { [u |-> "Int", v |-> IntV(3)],
      [u |-> "PtrInt", v |-> PtrTo("old", IntV(3))],
      [u |-> "SliceInt", v |-> SliceOf("old", <<IntV(3)>>)] }

\* The codec of map[string]T for the element type of e, a target (nil, or
\* holding entries) and an input multimap.
MapRunsOf(e) ==
    { [ phase |-> "call",
        p |-> [Type |-> "Map", ElemType |-> e.u, ElemUnmarshaler |-> e.u],
        v0 |-> t,
        vs |-> vs,
        out |-> [v |-> t, err |-> NoErr] ] :
      t \in {MapNil} \cup {MapOf("old", f) : f \in PartialMaps(MapKeys, {e.v})},
      vs \in PartialMaps(MapKeys, StringInputs) }

MapRuns == UNION {MapRunsOf(e) : e \in MapElems}

\* vum.UnmarshalValues(v, values, p.opts) on the map codec; the range over
\* the input visits its keys in some order.
DecodeMap(order) ==
    /\ dec.phase = "call"
    /\ dec' = [dec EXCEPT !.phase = "returned",
                          !.out = mapUnmarshalerUnmarshalValues(dec.p, dec.v0, dec.vs, order)]
    /\ UNCHANGED cacheVars

-----------------------------------------------------------------------------
(* QSUnmarshaler.UnmarshalValues: resolution through the cache, then the
   decode with the resolved codec *)

\* The struct unmarshaler of type Rec: a required int field and an array
\* field.
RecUnmarshaler ==
    [ Type |-> "Rec", NumField |-> 2,
      Fields |-> << FieldUnmarshalerOf(1, <<[u |-> "Int"], "Req">>),
                    FieldUnmarshalerOf(2, <<[u |-> "ArrayInt"], "Opt">>) >>,
      EmbeddedFields |-> <<>> ]

\* The value the caller's pointer points to.
RecTarget == StructV(<<IntV(3), ArrayOf(Repeat(IntV(3), ArrayLen))>>)

ValidValues == [k \in {KeyOf(1)} |-> Strs(<<"7">>)]

\* Inputs of a call: a valid one, and one each with the required field
\* missing, an unparsable number, two strings for a scalar and an array of
\* the wrong length.
CallValues ==
    { ValidValues,
      <<>>,
      [k \in {KeyOf(1)} |-> Strs(<<"">>)],
      [k \in {KeyOf(1)} |-> Strs(<<"7", "8">>)],
      [k \in {KeyOf(1), KeyOf(2)} |-> Strs(<<"7">>)] }

\* Variant: the error of a failed decode is stored under the type.
AfterDecodePoisons(mm, key, err) ==
    IF err # NoErr THEN MapStore(mm, key, NewError(key, 0)) ELSE mm

\* The cache after vum.UnmarshalValues has returned err: the error goes to
\* the caller and nothing is stored.
AfterDecode(mm, key, err) == mm

\* No call has decoded yet.
NoRuns == [phase |-> "calls", usedAt |-> 0, runs |-> <<>>]

\* return vum.UnmarshalValues(v, values, p.opts), with the codec the cache
\* has just returned to goroutine p for Rec.
DecodeWith(p, values) ==
    /\ p \in active
    /\ ~HasFrame(p)
    /\ last[p].t = "Rec"
    /\ last[p].v.kind = "codec"
    /\ dec.usedAt # nres
    /\ LET r == UnmarshalValues(RecUnmarshaler, RecTarget, values) IN
       /\ dec' = [dec EXCEPT
                    !.usedAt = nres,
                    !.runs = Append(@, [codec |-> last[p].v, values |-> values,
                                        err |-> r.err, before |-> m])]
       /\ m' = AfterDecode(m, "Rec", r.err)
    /\ UNCHANGED <<active, readers, writer, stack, calls, produced, returned, last, nres>>

-----------------------------------------------------------------------------
(* Encode runs on records whose fields share wire keys *)

\* Fields a record type of these runs declares at most.
MaxDeclared == 3

WireKeys == {"a", "b"}

\* The string the field declared at position i holds when it is not empty.
MarkOf(i) == <<"p", "q", "r", "s", "t">>[i]

\* The marshaler of a struct with one string field whose wire key is key:
\* type Sub struct { F string `qs:"key,omitempty"` }.
SubMarshaler(key) ==
    [ Type |-> "Sub", NumField |-> 1,
      Fields |-> << [ FieldIndex |-> 1, Marshaler |-> "String",
                      Tag |-> [Name |-> key, MarshalPresence |-> "OmitEmpty"] ] >>,
      EmbeddedFields |-> <<>> ]

\* A struct type without fields about to be extended, with its value and
\* the declarations made so far.
EmptyDeclaredRun ==
    [ phase |-> "fields",
      pm |-> [Type |-> "Rec", NumField |-> 0, Fields |-> <<>>, EmbeddedFields |-> <<>>],
      v |-> StructV(<<>>),
      decl |-> <<>>,
      enc |-> [vs |-> <<>>, err |-> NoErr] ]

\* The next declared field is a string field with wire key `key`; the record
\* holds its mark in it, or the empty string.
AddDirect(key, empty) ==
    /\ dec.phase = "fields"
    /\ dec.pm.NumField < MaxDeclared
    /\ \A j \in DOMAIN dec.pm.Fields : dec.pm.Fields[j].Tag.Name # key
    /\ LET i == dec.pm.NumField + 1
           x == IF empty THEN "" ELSE MarkOf(i)
       IN dec' = [dec EXCEPT
                    !.pm.NumField = i,
                    !.pm.Fields = Append(@,
                        [ FieldIndex |-> i, Marshaler |-> "String",
                          Tag |-> [Name |-> key, MarshalPresence |-> "OmitEmpty"] ]),
                    !.v.elems = Append(@, StrV(x)),
                    !.decl = Append(@, [embedded |-> FALSE, key |-> key, str |-> x])]
    /\ UNCHANGED cacheVars

\* The next declared field is an anonymous struct whose one field has the
\* wire key `key`; the record holds the position's mark in it, or the empty
\* string.
AddFlattened(key, empty) ==
    /\ dec.phase = "fields"
    /\ dec.pm.NumField < MaxDeclared
    /\ LET i == dec.pm.NumField + 1
           x == IF empty THEN "" ELSE MarkOf(i)
       IN dec' = [dec EXCEPT
                    !.pm.NumField = i,
                    !.pm.EmbeddedFields = Append(@,
                        [FieldIndex |-> i, ValuesMarshaler |-> SubMarshaler(key)]),
                    !.v.elems = Append(@, StructV(<<StrV(x)>>)),
                    !.decl = Append(@, [embedded |-> TRUE, key |-> key, str |-> x])]
    /\ UNCHANGED cacheVars

\* vm.MarshalValues(v, opts) on the declared record.
EncodeDeclared ==
    /\ dec.phase = "fields"
    /\ dec' = [dec EXCEPT !.phase = "encoded",
                          !.enc = MarshalValues(dec.pm, dec.v)]
    /\ UNCHANGED cacheVars

-----------------------------------------------------------------------------

NoLast == [t |-> "", v |-> None, q |-> FALSE, hit |-> FALSE]

DecIdle == [phase |-> "idle"]

InitCacheVars ==
    /\ m = <<>>
    /\ readers = 0
    /\ writer = FALSE
    /\ stack = [p \in Procs |-> <<>>]
    /\ calls = [t \in Types |-> 0]
    /\ produced = [t \in Types |-> {}]
    /\ returned = [t \in Types |-> {}]
    /\ last = [p \in Procs |-> NoLast]
    /\ nres = 0

InitCache == InitCacheVars /\ dec = DecIdle

\* Concurrent callers.
Init == InitCache /\ active = Procs

\* One caller at a time.
InitSeq == InitCache /\ active = {1}

Next ==
    \E p \in Procs :
        \/ \E t \in Types : Call(p, t)
        \/ RLock(p)
        \/ LoadRead(p)
        \/ Wrapped(p)
        \/ StoreLock(p)
        \/ StoreWrite(p)

\* Decoding one record from one multimap, no cache traffic.
InitDecode ==
    /\ InitCacheVars
    /\ active = {}
    /\ dec = EmptyRun

NextDecode ==
    \/ \E f \in FieldChoices : AddField(f)
    \/ Decode

\* One call of Unmarshaler.Unmarshal, no cache traffic.
InitStrings ==
    /\ InitCacheVars
    /\ active = {}
    /\ dec \in {StringsRun(t, a) : t \in StringTargets, a \in StringInputs}

NextStrings == UnmarshalStrings

\* Encoding one record and decoding the result, no cache traffic.
InitEncode ==
    /\ InitCacheVars
    /\ active = {}
    /\ dec = EmptyEncodeRun

NextEncode ==
    \/ \E id \in BaseIDs : AddEmbedded(id)
    \/ \E f \in MarshalChoices : AddMarshalField(f)
    \/ Encode
    \/ DecodeBack

\* Callers that resolve Rec and the self-referential Self.
InitSelf ==
    /\ m = <<>>
    /\ readers = 0
    /\ writer = FALSE
    /\ stack = [p \in Procs |-> <<>>]
    /\ calls = [t \in SelfTypes |-> 0]
    /\ produced = [t \in SelfTypes |-> {}]
    /\ returned = [t \in SelfTypes |-> {}]
    /\ last = [p \in Procs |-> NoLast]
    /\ nres = 0
    /\ dec = DecIdle
    /\ active = Procs

\* The steps goroutine p takes once it is inside a cache method.
Step(p) ==
    \/ RLock(p)
    \/ LoadRead(p)
    \/ Wrapped(p)
    \/ StoreLock(p)
    \/ StoreWrite(p)

NextSelf ==
    \E p \in Procs :
        \/ \E t \in SelfTypes : Call(p, t)
        \/ RLock(p)
        \/ LoadRead(p)
        \/ Wrapped(p)
        \/ StoreLock(p)
        \/ StoreWrite(p)

\* Resolutions under one configuration with the custom factory.
InitFactory ==
    /\ InitCacheVars
    /\ active = {}
    /\ dec = NoResolution

NextFactory == \E t \in ValuesTypes : Resolve(t)

\* One codec built under one default, then used under either.
InitPresence ==
    /\ InitCacheVars
    /\ active = {}
    /\ dec \in {PresenceRun(codec, d) : codec \in PresenceCodecs, d \in MarshalPresences}

NextPresence ==
    \/ \E f \in PresenceValues, option \in TagOptions : AddTaggedField(f, option)
    \/ \E k \in MapKeys, f \in PresenceValues : AddMapEntry(k, f)
    \/ \E d \in MarshalPresences : EncodeWith(d)

SpecPresence == InitPresence /\ [][NextPresence]_vars

\* One sequence marshaler constructed and used on one value.
InitSequence ==
    /\ InitCacheVars
    /\ active = {}
    /\ dec \in {SequenceRun(t) : t \in SequenceValues}

NextSequence == ConstructSequence \/ MarshalSequence

SpecSequence == InitSequence /\ [][NextSequence]_vars

\* Decoding one record that embeds records, no cache traffic.
NextEmbedded ==
    \/ \E f \in EmbeddedChoices : AddInnerField(f)
    \/ Embed
    \/ Decode

SpecEmbedded == InitDecode /\ [][NextEmbedded]_vars

\* Decoding one map from one multimap, no cache traffic.
InitMap ==
    /\ InitCacheVars
    /\ active = {}
    /\ dec \in MapRuns

NextMap == \E order \in Orders(DOMAIN dec.vs) : DecodeMap(order)

SpecMap == InitMap /\ [][NextMap]_vars

\* One caller at a time resolving and decoding.
InitCalls == InitCacheVars /\ active = {1} /\ dec = NoRuns

NextCalls ==
    \E p \in Procs :
        \/ \E t \in Types : Call(p, t)
        \/ RLock(p)
        \/ LoadRead(p)
        \/ Wrapped(p)
        \/ StoreLock(p)
        \/ StoreWrite(p)
        \/ \E values \in CallValues : DecodeWith(p, values)

SpecCalls == InitCalls /\ [][NextCalls]_vars

\* Concurrent callers, every goroutine that can take a step eventually
\* scheduled (the Go scheduler runs every runnable goroutine, and a
\* sync.RWMutex starves neither readers nor writers).
SpecFair == Init /\ [][Next]_vars /\ \A p \in Procs : WF_vars(Step(p))

\* Encoding one record whose direct and flattened fields may share wire
\* keys, no cache traffic.
InitCollide ==
    /\ InitCacheVars
    /\ active = {}
    /\ dec = EmptyDeclaredRun

NextCollide ==
    \/ \E key \in WireKeys, empty \in BOOLEAN : AddDirect(key, empty)
    \/ \E key \in WireKeys, empty \in BOOLEAN : AddFlattened(key, empty)
    \/ EncodeDeclared

SpecCollide == InitCollide /\ [][NextCollide]_vars

Spec == Init /\ [][Next]_vars

SpecFactory == InitFactory /\ [][NextFactory]_vars

\* The scheduler runs every goroutine that can take a step.
SpecSelf == InitSelf /\ [][NextSelf]_vars /\ \A p \in Procs : WF_vars(Step(p))

SpecEncode == InitEncode /\ [][NextEncode]_vars

SpecStrings == InitStrings /\ [][NextStrings]_vars

SpecDecode == InitDecode /\ [][NextDecode]_vars

SpecSeq == InitSeq /\ [][Next]_vars

-----------------------------------------------------------------------------
(* Properties of the cache *)

\* Goroutines inside Load's critical section / inside Store's.
InLoad == {p \in Procs : HasFrame(p) /\ Top(p).pc = "read"}

InStore == {p \in Procs : HasFrame(p) /\ Top(p).pc = "write"}

\* C1 (SpecSeq, one caller at a time): once a resolution of t has returned
\* a codec, the wrapped factory has been invoked exactly once for t and
\* every resolution of t so far returned the one codec the cache holds.
C1_HitReturnsSameCodec ==
    \A t \in Types :
        (\E v \in returned[t] : v.kind = "codec") =>
            /\ calls[t] = 1
            /\ t \in DOMAIN m
            /\ returned[t] = {m[t]}

\* A second resolution of some type was a hit that returned a codec.
C1_Witness ==
    \E p \in Procs :
        last[p].hit /\ last[p].v.kind = "codec" /\ calls[last[p].t] = 1

\* C2 (SpecSeq): once the wrapped factory has failed for t, the cache holds
\* that error, every resolution of t returned that identical error value,
\* and the wrapped factory was invoked once for t.
C2_ErrorIsCached ==
    \A t \in Types :
        (\E v \in returned[t] : v.kind = "err") =>
            /\ calls[t] = 1
            /\ t \in DOMAIN m
            /\ m[t].kind = "err"
            /\ returned[t] = {m[t]}

\* A second resolution of some type was a hit that returned the error.
C2_Witness ==
    \E p \in Procs :
        last[p].hit /\ last[p].v.kind = "err" /\ calls[last[p].t] = 1

\* C3 as claimed: under concurrent callers the wrapped factory is invoked
\* at most once per type.
C3_AtMostOnce == \A t \in Types : calls[t] <= 1

\* C3 as amended: the wrapped factory is invoked at most once per
\* concurrent caller for each type.
C3_AtMostOncePerCaller == \A t \in Types : calls[t] <= Cardinality(active)

\* Two callers both missed and both invoked the wrapped factory for a type.
C3_Witness == \E t \in Types : calls[t] >= 2

\* C4 as claimed: an entry, once stored, is never replaced, and no two
\* resolutions of a type return different values.
C4_EntryImmutable ==
    [][\A t \in Types :
          /\ t \in DOMAIN m => (t \in DOMAIN m' /\ m'[t] = m[t])
          /\ Cardinality(returned'[t]) <= 1]_vars

\* C4 as amended: an entry never disappears, always is a value the wrapped
\* factory produced for its type, and is no longer replaced once no
\* resolution that missed the type is still on its way to Store.
C4_EntrySettles ==
    [][\A t \in Types :
          t \in DOMAIN m =>
              /\ t \in DOMAIN m'
              /\ m'[t] \in produced'[t]
              /\ (~PendingMiss(t) => m'[t] = m[t])]_vars

\* Overlapping resolutions of a type returned two different objects, and
\* the type's entry has settled.
C4_Witness ==
    \E t \in Types :
        Cardinality(returned[t]) >= 2 /\ t \in DOMAIN m /\ ~PendingMiss(t)

\* C5: the map is read only under the read lock and written only under the
\* write lock; a Store never overlaps a Load or another Store.
C5_LockDiscipline ==
    /\ Cardinality(InStore) <= 1
    /\ InStore # {} => InLoad = {}
    /\ readers = Cardinality(InLoad)
    /\ writer <=> InStore # {}

\* Two Loads are inside the read lock at the same time.
C5_Witness == Cardinality(InLoad) >= 2

\* C6: every value a resolution returns was produced by the wrapped factory
\* for that type; a resolution that starts when an earlier one has completed
\* and none is in flight is a hit on the stored value and never reaches the
\* wrapped factory.
C6_ConsistentResults ==
    /\ \A t \in Types : returned[t] \subseteq produced[t]
    /\ \A p \in Procs :
          /\ last[p].q =>
                /\ last[p].hit
                /\ last[p].t \in DOMAIN m
                /\ last[p].v = m[last[p].t]
          /\ \A i \in 1..Len(stack[p]) :
                stack[p][i].q => stack[p][i].pc \in {"rlock", "read"}

\* Two overlapping resolutions of a type both invoked the wrapped factory,
\* and a later resolution of that type started after they had completed.
C6_Witness ==
    \E p \in Procs :
        last[p].q /\ last[p].t \in Types /\ calls[last[p].t] >= 2

-----------------------------------------------------------------------------
(* Properties of record decoding *)

Done == dec.phase = "done"

\* Positions in p.Fields, and the parts of the k-th direct field.
FieldPositions == 1..Len(dec.p.Fields)

FieldIndexAt(k) == dec.p.Fields[k].FieldIndex

NameAt(k) == dec.p.Fields[k].Tag.Name

PresenceAt(k) == dec.p.Fields[k].Tag.UnmarshalPresence

KeyPresent(k) == NameAt(k) \in DOMAIN dec.vs

Before(k) == dec.v0.elems[FieldIndexAt(k)]

After(k) == dec.out.v.elems[FieldIndexAt(k)]

FailedAtField(k) == dec.out.failedAt = FieldIndexAt(k)

\* The loop over p.Fields got as far as position k.
Reached(k) ==
    \A j \in FieldPositions : j < k => ~FailedAtField(j)

MissingReq(k) == PresenceAt(k) = "Req" /\ ~KeyPresent(k)

\* C7 as claimed: a decode from a multimap that lacks the key of a Req
\* field fails with a required-field error that names a missing Req field,
\* and does not invoke that field's sub-codec.
C7_MissingRequiredFails ==
    Done =>
        \A k \in FieldPositions :
            MissingReq(k) =>
                /\ IsRequiredFieldError(dec.out.err).ok
                /\ \E j \in FieldPositions :
                      MissingReq(j) /\ IsRequiredFieldError(dec.out.err).fieldName = NameAt(j)
                /\ FieldIndexAt(k) \notin dec.out.invoked

\* C7 as amended: the decode fails at or before the Req field whose key is
\* missing and never invokes its sub-codec; the error is that of the first
\* failing field: a required-field error naming the wire key when that
\* field is a Req field with a missing key, another field's decode error,
\* which IsRequiredFieldError does not recognise, otherwise.
C7_FirstFailureWins ==
    Done =>
        \A k \in FieldPositions :
            MissingReq(k) =>
                /\ dec.out.err # NoErr
                /\ FieldIndexAt(k) \notin dec.out.invoked
                /\ \E j \in FieldPositions :
                      /\ j <= k
                      /\ FailedAtField(j)
                      /\ IF MissingReq(j)
                         THEN IsRequiredFieldError(dec.out.err) =
                                  [fieldName |-> NameAt(j), ok |-> TRUE]
                         ELSE ~IsRequiredFieldError(dec.out.err).ok

\* A second field with the req option and no key in the input made the
\* decode fail after the first field had been decoded.
C7_Witness ==
    /\ Done
    /\ \E k \in FieldPositions :
          /\ k > 1
          /\ MissingReq(k)
          /\ FailedAtField(k)
          /\ dec.out.invoked # {}
          /\ IsRequiredFieldError(dec.out.err).ok

\* Values under a key that are empty or one well-formed number.
EmptyOrValid == {Strs(<<>>), Strs(<<"">>), Strs(<<"7">>)}

\* C8 as claimed: when every field is a Req field whose key is present,
\* with an empty or a well-formed value, the decode succeeds.
C8_PresentRequiredSucceeds ==
    Done =>
        ((\A k \in FieldPositions :
              PresenceAt(k) = "Req" /\ KeyPresent(k) /\ dec.vs[NameAt(k)] \in EmptyOrValid)
            => dec.out.err = NoErr)

\* C8 as amended: a Req field whose key is present is never reported as a
\* missing required field; once the loop reaches it its sub-codec is invoked
\* with the supplied strings and decides the outcome: an empty string is
\* stored into a string field, is a parse error for an int field, and an
\* empty sequence is rejected by the collapse function.
C8_PresentRequiredIsDecoded ==
    Done =>
        \A k \in FieldPositions :
            (PresenceAt(k) = "Req" /\ KeyPresent(k)) =>
                LET u == dec.p.Fields[k].Unmarshaler
                    a == dec.vs[NameAt(k)]
                IN /\ FailedAtField(k) => ~IsRequiredFieldError(dec.out.err).ok
                   /\ Reached(k) =>
                        /\ FieldIndexAt(k) \in dec.out.invoked
                        /\ (u = "String" /\ a = Strs(<<"">>)) =>
                              (~FailedAtField(k) /\ After(k) = StrV(""))
                        /\ (u = "Int" /\ a = Strs(<<"">>)) =>
                              /\ FailedAtField(k)
                              /\ dec.out.err = ErrorString("parse")
                              /\ After(k) = Before(k)
                        /\ (CodecKind(u) = "primitive" /\ a = Strs(<<>>)) =>
                              /\ FailedAtField(k)
                              /\ dec.out.err = ErrorString("collapse")

\* A Req string field received an empty string and the decode succeeded.
C8_Witness ==
    /\ Done
    /\ dec.out.err = NoErr
    /\ \E k \in FieldPositions :
          /\ PresenceAt(k) = "Req"
          /\ KeyPresent(k)
          /\ dec.p.Fields[k].Unmarshaler = "String"
          /\ dec.vs[NameAt(k)] = Strs(<<"">>)

\* C9: a field with the nil option whose key is absent keeps exactly the
\* value it had, its sub-codec is not invoked, and the decode does not fail
\* at that field.
C9_NilLeavesFieldUntouched ==
    Done =>
        \A k \in FieldPositions :
            (PresenceAt(k) = "Nil" /\ ~KeyPresent(k)) =>
                /\ After(k) = Before(k)
                /\ FieldIndexAt(k) \notin dec.out.invoked
                /\ ~FailedAtField(k)

\* A nil pointer or nil slice field with the nil option and no key was
\* passed over by a decode that succeeded.
C9_Witness ==
    /\ Done
    /\ dec.out.err = NoErr
    /\ \E k \in FieldPositions :
          /\ PresenceAt(k) = "Nil"
          /\ ~KeyPresent(k)
          /\ Before(k).isNil
          /\ After(k).isNil

\* C10: a field with the opt option whose key is absent, once reached, does
\* not make the decode fail and keeps its value, except that a nil pointer
\* or nil slice is replaced by a newly created object.
C10_OptInitialisesNil ==
    Done =>
        \A k \in FieldPositions :
            (PresenceAt(k) = "Opt" /\ ~KeyPresent(k) /\ Reached(k)) =>
                /\ ~FailedAtField(k)
                /\ IF Before(k).kind \in {"Ptr", "Slice"} /\ Before(k).isNil
                   THEN ~After(k).isNil /\ After(k).addr = "new"
                   ELSE After(k) = Before(k)


\* What decoding the strings under the k-th field's key into the pointee of
\* that field gives, the pointee being the zero value when the pointer was
\* nil.
PointeeDecoded(k) ==
    LET u == dec.p.Fields[k].Unmarshaler
        pointee == IF Before(k).isNil THEN ZeroOf(ElemOf(u)) ELSE Before(k).elems[1]
    IN Unmarshal(ElemOf(u), pointee, dec.vs[NameAt(k)])

\* C11: a pointer field whose key is present with a string sequence, once
\* reached, is not nil afterwards whatever its option: a nil pointer got a
\* newly allocated pointee, any other pointer still has the pointee it had;
\* the pointee holds what decoding the supplied strings into it gives, and
\* the decode fails at the field exactly when that decoding fails.
C11_PresentPointerIsAllocated ==
    Done =>
        \A k \in FieldPositions :
            ( /\ dec.p.Fields[k].Unmarshaler = "PtrInt"
              /\ KeyPresent(k)
              /\ Reached(k) ) =>
                (~dec.vs[NameAt(k)].isNil =>
                    /\ ~After(k).isNil
                    /\ After(k).addr = (IF Before(k).isNil THEN "new" ELSE Before(k).addr)
                    /\ After(k).elems[1] = PointeeDecoded(k).v
                    /\ FailedAtField(k) <=> PointeeDecoded(k).err # NoErr)

\* A nil pointer field with the nil option received "7" and now points to
\* a new 7; in the same record a non-nil pointer kept its pointee, which
\* now holds 7.
C11_Witness ==
    /\ Done
    /\ dec.out.err = NoErr
    /\ \E k, j \in FieldPositions :
          /\ PresenceAt(k) = "Nil"
          /\ Before(k) = PtrNil
          /\ KeyPresent(k)
          /\ After(k) = PtrTo("new", IntV(7))
          /\ Before(j) = PtrTo("old", IntV(3))
          /\ After(j) = PtrTo("old", IntV(7))


\* C15: a record decode that returns an error leaves the caller's target
\* exactly as it was before the call.
C15_AllOrNothing ==
    (Done /\ dec.out.err # NoErr) => dec.out.v = dec.v0

-----------------------------------------------------------------------------
(* Properties of Unmarshaler.Unmarshal *)

Returned == dec.phase = "returned"

\* Number of strings handed to the call.
NumStrings == Len(dec.a.elems)

\* What decoding string i alone into element i of the target gives.
ElemDecoded(i) == Unmarshal(ElemOf(dec.u), dec.v0.elems[i], Slice1(dec.a, i))

\* Indexes whose string does not decode into an element.
BadIndexes == {i \in 1..NumStrings : ElemDecoded(i).err # NoErr}

\* C13: decoding [ArrayLen]int from a sequence of N strings fails whenever
\* N differs from ArrayLen and then leaves every element as it was; when N
\* equals ArrayLen the call fails exactly when some string does not decode,
\* and each element up to the first such string holds what its own string
\* alone decodes to.
C13_ArrayLengthEnforced ==
    (Returned /\ dec.u = "ArrayInt" /\ ~dec.a.isNil) =>
        IF NumStrings # ArrayLen
        THEN dec.out.err # NoErr /\ dec.out.v = dec.v0
        ELSE /\ dec.out.err = NoErr <=> BadIndexes = {}
             /\ \A i \in 1..ArrayLen :
                   IF \A j \in BadIndexes : i <= j
                   THEN dec.out.v.elems[i] = ElemDecoded(i).v
                   ELSE dec.out.v.elems[i] = dec.v0.elems[i]

\* An array was decoded from ArrayLen strings, its first two elements
\* from two different numbers.
C13_Witness ==
    /\ Returned
    /\ dec.u = "ArrayInt"
    /\ dec.out.err = NoErr
    /\ NumStrings = ArrayLen
    /\ dec.out.v.elems[1] = IntV(7)
    /\ dec.out.v.elems[2] = IntV(8)

\* C14: decoding []int from N >= 0 well-formed strings succeeds and leaves
\* a non-nil slice of length exactly N, whatever the target held.
C14_SliceSizedToInput ==
    (Returned /\ dec.u = "SliceInt" /\ ~dec.a.isNil
        /\ \A i \in 1..NumStrings : dec.a.elems[i] \in {"7", "8"}) =>
        /\ dec.out.err = NoErr
        /\ ~dec.out.v.isNil
        /\ Len(dec.out.v.elems) = NumStrings

\* C16: the default collapse function returns the only string of a
\* sequence of exactly one and fails for every other count; a scalar codec
\* handed zero or several strings fails with the collapse error and leaves
\* its target as it was.
C16_DefaultCollapse ==
    Returned =>
        /\ IF NumStrings = 1
           THEN defaultSliceToString(dec.a) = [s |-> dec.a.elems[1], err |-> NoErr]
           ELSE defaultSliceToString(dec.a).err # NoErr
        /\ ( /\ CodecKind(dec.u) \in {"primitive", "text"}
             /\ ~dec.a.isNil
             /\ NumStrings # 1 ) =>
                /\ dec.out.err = ErrorString("collapse")
                /\ dec.out.v = dec.v0

\* An int target was handed two numbers; the call failed in the collapse
\* and the target still holds its old value.
C16_Witness ==
    /\ Returned
    /\ dec.u = "Int"
    /\ dec.a = Strs(<<"7", "8">>)
    /\ dec.out.err = ErrorString("collapse")
    /\ dec.out.v = IntV(3)

-----------------------------------------------------------------------------
(* Properties of structMarshaler.MarshalValues *)

Encoded == dec.phase \in {"encoded", "decoded"} /\ dec.enc.err = NoErr

\* The value the encoded record holds in its k-th codec-carrying field, the
\* marshal option of that field, and whether the output has its wire key.
FieldValue(k) == dec.v.elems[dec.pm.Fields[k].FieldIndex]

PresenceOf(k) == dec.pm.Fields[k].Tag.MarshalPresence

Emitted(k) == dec.pm.Fields[k].Tag.Name \in DOMAIN dec.enc.vs

\* A zero number, an empty string, an unallocated pointer, an empty
\* sequence.
HoldsZero(v) ==
    \/ v \in {IntV(0), StrV(""), PtrNil}
    \/ v.kind = "Slice" /\ Len(v.elems) = 0

\* C12, as stated (SpecEncode): a field holding its zero or empty value
\* has an entry under its wire key when its option is KeepEmpty and none
\* when it is OmitEmpty.
C12_KeepEmptyAlwaysEmits ==
    Encoded =>
        \A k \in 1..Len(dec.pm.Fields) :
            HoldsZero(FieldValue(k)) =>
                /\ PresenceOf(k) = "KeepEmpty" => Emitted(k)
                /\ PresenceOf(k) = "OmitEmpty" => ~Emitted(k)

\* C12, amended (SpecEncode): a field holding its zero or empty value has
\* no entry when its option is OmitEmpty; when it is KeepEmpty, a zero
\* number or an empty string has an entry of one string, and an unallocated
\* pointer or an empty sequence has none.
C12_KeepEmptyEmitsScalars ==
    Encoded =>
        \A k \in 1..Len(dec.pm.Fields) :
            HoldsZero(FieldValue(k)) =>
                /\ PresenceOf(k) = "OmitEmpty" => ~Emitted(k)
                /\ PresenceOf(k) = "KeepEmpty" =>
                       (Emitted(k) <=> FieldValue(k).kind \in {"Int", "String"})
                /\ Emitted(k) =>
                       Len(dec.enc.vs[dec.pm.Fields[k].Tag.Name].elems) = 1

\* A record was encoded that holds zero in a KeepEmpty field, which got its
\* entry, and an unallocated pointer in another KeepEmpty field, which got
\* none.
C12_Witness ==
    /\ Encoded
    /\ \E k \in 1..Len(dec.pm.Fields) :
           FieldValue(k) = IntV(0) /\ PresenceOf(k) = "KeepEmpty" /\ Emitted(k)
    /\ \E k \in 1..Len(dec.pm.Fields) :
           FieldValue(k) = PtrNil /\ PresenceOf(k) = "KeepEmpty" /\ ~Emitted(k)

\* The record {Base: {ID: "x"}, Name: "y"} of the type that embeds Base and
\* has one string field of its own, whose wire key is KeyOf(2).
EmbeddedExample == StructV(<<StructV(<<StrV("x")>>), StrV("y")>>)

\* C17 (SpecEncode): the output of encoding a record that embeds Base holds
\* Base's wire key id with the strings of ID next to the record's own
\* keys, and no key for the embedded field itself; {Base: {ID: "x"},
\* Name: "y"} encodes to exactly the two entries id: ["x"] and the own
\* field's key: ["y"].
C17_EmbeddedIsFlattened ==
    (Encoded /\ Len(dec.pm.EmbeddedFields) = 1) =>
        /\ {"base", "Base"} \cap DOMAIN dec.enc.vs = {}
        /\ "id" \in DOMAIN dec.enc.vs
        /\ dec.enc.vs["id"] = Strs(<<dec.v.elems[1].elems[1].str>>)
        /\ DOMAIN dec.enc.vs \ {"id"}
               = {dec.pm.Fields[k].Tag.Name : k \in {j \in 1..Len(dec.pm.Fields) : Emitted(j)}}
        /\ dec.v = EmbeddedExample =>
               dec.enc.vs = [n \in {"id", KeyOf(2)} |->
                                IF n = "id" THEN Strs(<<"x">>) ELSE Strs(<<"y">>)]

\* The record {Base: {ID: "x"}, Name: "y"} was encoded.
C17_Witness == Encoded /\ dec.v = EmbeddedExample

-----------------------------------------------------------------------------
(* Properties of encode followed by decode *)

\* What a value holds, whatever the identity of its pointers and slices:
\* an empty slice and a nil one hold the same.
RECURSIVE Content(_)
Content(v) ==
    [v EXCEPT !.addr = "",
              !.isNil = IF v.kind = "Slice" THEN Len(v.elems) = 0 ELSE @,
              !.elems = [i \in DOMAIN @ |-> Content(@[i])]]

\* C18 (SpecEncode): decoding the encoding of a record into a zero value of
\* its type succeeds and yields a record that holds in every field what
\* the encoded record holds.
C18_RoundTrip ==
    dec.phase = "decoded" =>
        /\ dec.out.err = NoErr
        /\ Content(dec.out.v) = Content(dec.v)

-----------------------------------------------------------------------------
(* Termination of codec resolution *)

\* C19 (SpecSelf): every resolution a goroutine has entered returns, for
\* Rec and for the self-referential type Self alike.
C19_ResolutionReturns ==
    \A p \in Procs : HasFrame(p) ~> ~HasFrame(p)

-----------------------------------------------------------------------------
(* Properties of resolution under a custom factory *)

\* Who made the codecs for X inside the codec u.
RECURSIVE XMakers(_)
XMakers(u) ==
    (IF u.Type = XType THEN {u.by} ELSE {})
        \cup UNION {XMakers(u.sub[i]) : i \in DOMAIN u.sub}

-----------------------------------------------------------------------------
(* Properties of the default marshal presence *)

\* C21 (SpecPresence): the multimap a built codec yields for a value does
\* not depend on the default marshal presence of the options handed to the
\* encode call, for the struct codec and for the map codec.
C21_PresenceFixedAtBuild ==
    \A d1 \in DOMAIN dec.res : \A d2 \in DOMAIN dec.res : dec.res[d1] = dec.res[d2]

-----------------------------------------------------------------------------
(* Properties of the array and slice marshaler *)

\* An element codec that can yield a number of strings other than one: a
\* pointer (none when nil) or a sequence.
MultiValued(u) == CodecKind(u) \in {"ptr", "slice", "array"}

\* C22 (SpecSequence): the construction of a sequence codec whose element
\* type is multi-valued fails, and every constructed sequence codec encodes
\* a value to one string per element, in element order.
C22_MultiValuedRejectedAtConstruction ==
    /\ (dec.phase # "type" /\ MultiValued(ElemOf(dec.u))) => dec.built.err # NoErr
    /\ dec.phase = "marshalled" =>
           /\ dec.out.err = NoErr
           /\ Len(dec.out.a.elems) = Len(dec.v.elems)
           /\ \A i \in 1..Len(dec.v.elems) :
                  Marshal(ElemOf(dec.u), dec.v.elems[i]).a.elems = <<dec.out.a.elems[i]>>

-----------------------------------------------------------------------------
(* Properties of decoding embedded records *)

\* What the embedded record's own decode returns on the input of the run.
EmbeddedOutcome ==
    UnmarshalValues(dec.p.EmbeddedFields[1].ValuesUnmarshaler, dec.v0.elems[1], dec.vs)

-----------------------------------------------------------------------------
(* Properties of mapUnmarshaler.UnmarshalValues *)

\* C24 (SpecMap): a successful decode into a map leaves an allocated map
\* that has an entry for every key of the input, holding what that key's
\* strings decode to in a zero value of the element type; the entries of
\* the target under other keys are as before, and there are no others.
C24_EveryKeyBecomesAnEntry ==
    (dec.phase = "returned" /\ dec.out.err = NoErr) =>
        /\ ~dec.out.v.isNil
        /\ DOMAIN dec.out.v.elems = DOMAIN dec.vs \cup DOMAIN dec.v0.elems
        /\ \A k \in DOMAIN dec.vs :
               dec.out.v.elems[k] =
                   Unmarshal(dec.p.ElemUnmarshaler, ZeroOf(dec.p.ElemType), dec.vs[k]).v
        /\ \A k \in DOMAIN dec.v0.elems \ DOMAIN dec.vs :
               dec.out.v.elems[k] = dec.v0.elems[k]
        /\ (dec.v0.isNil /\ dec.vs = <<>>) => dec.out.v = MapOf("new", <<>>)

\* A map of ints that held 3 under both keys was decoded from an input with
\* a nil sequence under one of them: that entry is 0 and the other is 3.
C24_Witness ==
    /\ dec.phase = "returned"
    /\ dec.out.err = NoErr
    /\ dec.v0 = MapOf("old", [k \in MapKeys |-> IntV(3)])
    /\ dec.vs = [k \in {"a"} |-> NilStrings]
    /\ dec.out.v.elems = [k \in MapKeys |-> IF k = "a" THEN IntV(0) ELSE IntV(3)]

-----------------------------------------------------------------------------
(* Properties of calls that fail at run time *)

-----------------------------------------------------------------------------
(* Properties of the encoded multimap *)

\* C26 (SpecPresence): every multimap a successful encode returns, of a
\* struct or of a map, holds at least one string under each of its keys.
C26_NoEmptyEntries ==
    \A d \in DOMAIN dec.res :
        dec.res[d].err = NoErr =>
            \A k \in DOMAIN dec.res[d].vs : Len(dec.res[d].vs[k].elems) > 0

-----------------------------------------------------------------------------
(* Properties of the cache's lock around the wrapped factory *)

\* Goroutine p's frame at depth d is in Load: at o.mu.RLock() or inside it.
LoadAt(p, d) == Len(stack[p]) = d /\ Top(p).pc \in {"rlock", "read"}

\* Goroutine p's frame at depth d is in Store: at o.mu.Lock() or inside it.
StoreAt(p, d) == Len(stack[p]) = d /\ Top(p).pc \in {"lock", "write"}

\* Goroutine p is inside the wrapped factory, on some frame.
InFactory(p) ==
    \E i \in 1..Len(stack[p]) : stack[p][i].pc \in {"wrapped", "nested", "overflow"}

\* Goroutine p is inside the lock.
Holds(p) == HasFrame(p) /\ Top(p).pc \in {"read", "write"}

\* C27 (SpecFair): the lock is held by exactly the goroutines that are at
\* the map read of a Load or the map write of a Store, never by a frame
\* whose factory call is still running; a goroutine waiting for the lock
\* always leaves some goroutine able to step; and every Load and every
\* Store a goroutine enters, at any depth of re-entry, completes.
C27_LockNeverSpansFactory ==
    /\ [](/\ readers = Cardinality({p \in Procs : HasFrame(p) /\ Top(p).pc = "read"})
          /\ writer <=> \E p \in Procs : HasFrame(p) /\ Top(p).pc = "write"
          /\ \A p \in Procs : \A i \in 1..Len(stack[p]) :
                stack[p][i].pc \in {"read", "write"} => i = Len(stack[p])
          /\ (\A p \in Procs : ~Holds(p)) => (readers = 0 /\ ~writer))
    /\ \A p \in Procs : \A d \in 1..MaxDepth :
          /\ LoadAt(p, d) ~> ~LoadAt(p, d)
          /\ StoreAt(p, d) ~> ~StoreAt(p, d)

\* A goroutine that re-entered the cache from inside the factory is in the
\* write lock of the nested Store, while another goroutine, also re-entered
\* from inside the factory, waits for the lock.
C27_Witness ==
    \E p, q \in Procs :
        /\ p # q
        /\ InFactory(p) /\ StoreAt(p, 2) /\ Top(p).pc = "write"
        /\ InFactory(q) /\ StoreAt(q, 2) /\ Top(q).pc = "lock"

-----------------------------------------------------------------------------
(* Properties of encode on colliding wire keys *)

\* Positions of the declared fields of the given sort that emit key k.
Emitters(k, embedded) ==
    { i \in DOMAIN dec.decl :
        /\ dec.decl[i].embedded = embedded
        /\ dec.decl[i].key = k
        /\ dec.decl[i].str # "" }

Latest(S) == CHOOSE i \in S : \A j \in S : j <= i

\* C28 (SpecCollide): encode succeeds whatever keys collide, and under every
\* wire key the result holds the strings of the last declared flattened
\* sub-record that emits the key, wherever the direct field with that key is
\* declared; the direct field's strings are there only when no flattened
\* sub-record emits the key.
C28_LaterFlattenedWins ==
    dec.phase = "encoded" =>
        /\ dec.enc.err = NoErr
        /\ \A k \in WireKeys :
              LET E == Emitters(k, TRUE)
                  D == Emitters(k, FALSE)
              IN IF E # {}
                 THEN k \in DOMAIN dec.enc.vs
                      /\ dec.enc.vs[k] = Strs(<<dec.decl[Latest(E)].str>>)
                 ELSE IF D # {}
                 THEN k \in DOMAIN dec.enc.vs
                      /\ dec.enc.vs[k] = Strs(<<dec.decl[Latest(D)].str>>)
                 ELSE k \notin DOMAIN dec.enc.vs

\* An encoded record in which a flattened sub-record, a direct field declared
\* after it and a second flattened sub-record declared last all emit one key.
C28_Witness ==
    /\ dec.phase = "encoded"
    /\ \E k \in WireKeys :
          \E e1 \in Emitters(k, TRUE), d \in Emitters(k, FALSE), e2 \in Emitters(k, TRUE) :
              e1 < d /\ d < e2

=============================================================================
